---------------------------- MODULE Spec2Model ----------------------------
(***************************************************************************)
(* A model of the response-streaming core of CoffeeMarket-Twilio:          *)
(*   - agent.py            generate_agent_response_stream / run_agent      *)
(*   - agent_manager/handlers.py   StreamingCallbackHandler                *)
(*   - llm_handler.py      llm_call_response_streaming                     *)
(*   - agent_manager/utils.py      redact_conversation_history,            *)
(*                                 find_spoken_portion                     *)
(*                                                                         *)
(* Text is modelled as a sequence of characters; a character is an atom    *)
(* (a TLA+ string).  "U0130" stands for the capital dotted I, the one      *)
(* character whose str.lower() is two characters ("i", "U0307").           *)
(***************************************************************************)
EXTENDS Integers, Sequences, FiniteSets, TLC

VARIABLES
    \* conversation.py
    conversation_histories, \* session id -> list of history entries
    utterance,              \* the utteranceUntilInterrupt of the interrupt messages
    redaction_result,       \* the dict returned by redact_conversation_history
    interrupts,             \* how many interrupt messages have been handled
    \* llm_handler.py: the locals of llm_call_response_streaming, and its
    \* websocket
    token_buffer,           \* token_buffer
    full_response_parts,    \* full_response_parts
    should_end_call,        \* should_end_call (end_call_logged is always equal)
    should_handoff,         \* should_handoff (handoff_logged is always equal)
    logged_response,        \* full_response as logged for the AGENT speaker
    sent,                   \* the messages passed to websocket.send_json, in order
    chunk_pc,               \* "loop" (line 67), "post" (line 128), "done"
    \* agent_manager/handlers.py: the session's StreamingCallbackHandler
    tokens,                 \* tokens (buffer is their concatenation)
    tool_executing,         \* tool_executing
    call_end_detected,      \* call_end_detected
    handoff_detected,       \* handoff_detected
    interstitial_sent,      \* interstitial_sent
    interstitial_ready,     \* interstitial_ready
    sent_interstitials,     \* sent_interstitials
    phrase_index,           \* phrase_index
    timer,                  \* the thread of interstitial_timer: "none" (no timer,
                            \* or its thread has ended), "waiting" (in its delay),
                            \* "firing" (delay over, callback about to run),
                            \* "cancelled" (cancelled, thread not yet ended)
    \* agent.py: generate_agent_response_stream and its background thread
    stream_session_id,             \* the session_id argument of the running generator
    thread,                 \* "none", "alive", "returned" or "raised"
    agent_pc,               \* where the agent executor is in its callback protocol
    tool_runs,              \* tools started in this turn
    poll_pc,                \* "idle", "head" (160), "check" (164), "emit" (165),
                            \* "tokens" (180), "join" (195)
    last_token_count,       \* last_token_count
    current_token_count,    \* current_token_count
    token_i,                \* i of the for loop of line 180
    interstitial_sent_this_response,
    events,                 \* the dicts yielded in the current turn, in order
    turn,                   \* turns started so far
    \* conversation.py: the module's dictionaries and the websocket handler
    session_state,          \* session_state: session id -> its record
    connections,            \* the keys of connections
    session_conversation_loggers,   \* the keys of session_conversation_loggers
    call_sid_to_session_id, \* call_sid_to_session_id
    ws_session_id,          \* the local session_id of conversationrelay
    websocket,              \* "open" or "closed"
    \* agent.py
    AGENT_SESSIONS,         \* the keys of AGENT_SESSIONS
    parked,                 \* the handler, thread and generator of each session
                            \* other than stream_session_id: the variables of
                            \* handlers.py and agent.py above describe one
                            \* session at a time
    inbox                   \* the messages sent to the websocket that
                            \* conversationrelay has not received yet

redact_vars == <<conversation_histories, utterance, redaction_result, interrupts>>

chunker_vars == <<token_buffer, full_response_parts, should_end_call, should_handoff,
                  logged_response, sent, chunk_pc>>

handler_vars == <<tokens, tool_executing, call_end_detected, handoff_detected,
                  interstitial_sent, interstitial_ready, sent_interstitials,
                  phrase_index, timer>>

stream_vars == <<stream_session_id, thread, agent_pc, tool_runs, poll_pc, last_token_count,
                 current_token_count, token_i, interstitial_sent_this_response,
                 events, turn>>

conn_vars == <<session_state, connections, session_conversation_loggers,
               call_sid_to_session_id, ws_session_id, websocket, parked,
               inbox>>

session_vars == <<conn_vars, AGENT_SESSIONS>>

vars == <<redact_vars, chunker_vars, handler_vars, stream_vars, session_vars>>

-----------------------------------------------------------------------------
(* Bounds of the model.                                                    *)

MaxTextLen == 3      \* every text of at most this many characters is an input
MaxWords == 3        \* texts of at most this many one-letter words are inputs
MaxInterrupts == 2   \* interrupt messages handled in one behaviour
MaxTurns == 2        \* turns of the session in one behaviour
MaxTokens == 2       \* output fragments the model produces in one turn
MaxToolRuns == 2     \* tools the agent starts in one turn
MaxRotationTurns == 8  \* turns of the session in the rotation specification
MaxEvents == 3       \* output fragments one turn yields before its final event
LongFragmentLen == 200  \* the length of the long output fragment

-----------------------------------------------------------------------------
(* Python's str operations, on sequences of characters.                    *)

Min(a, b) == IF a < b THEN a ELSE b

Max(a, b) == IF a > b THEN a ELSE b

Whitespace == {" "}

\* str.lower() of one character: a sequence, since U+0130 lowers to two.
LowerChar(c) ==
    CASE c = "A" -> <<"a">>
      [] c = "U0130" -> <<"i", "U0307">>
      [] OTHER -> <<c>>

RECURSIVE lower(_)
lower(s) == IF s = <<>> THEN <<>> ELSE LowerChar(Head(s)) \o lower(Tail(s))

\* s[:n] for n >= 0
Prefix(s, n) == SubSeq(s, 1, Min(n, Len(s)))

\* needle in haystack
Contains(haystack, needle) ==
    \E i \in 0..(Len(haystack) - Len(needle)) :
        SubSeq(haystack, i + 1, i + Len(needle)) = needle

\* haystack.find(needle): the lowest 0-based index, or -1
Find(haystack, needle) ==
    IF Contains(haystack, needle)
    THEN CHOOSE i \in 0..(Len(haystack) - Len(needle)) :
            /\ SubSeq(haystack, i + 1, i + Len(needle)) = needle
            /\ \A j \in 0..(i - 1) : SubSeq(haystack, j + 1, j + Len(needle)) # needle
    ELSE -1

\* str.strip(): without the leading and trailing whitespace
strip(s) ==
    IF \A i \in 1..Len(s) : s[i] \in Whitespace THEN <<>>
    ELSE LET first == CHOOSE i \in 1..Len(s) :
                         s[i] \notin Whitespace /\ \A j \in 1..(i - 1) : s[j] \in Whitespace
             last == CHOOSE i \in 1..Len(s) :
                        s[i] \notin Whitespace /\ \A j \in (i + 1)..Len(s) : s[j] \in Whitespace
         IN  SubSeq(s, first, last)

\* str.split() without arguments: the maximal runs of non-whitespace characters
split(s) ==
    LET starts == {i \in 1..Len(s) :
                      s[i] \notin Whitespace /\ (i = 1 \/ s[i - 1] \in Whitespace)}
        ends == {i \in 1..Len(s) :
                    s[i] \notin Whitespace /\ (i = Len(s) \/ s[i + 1] \in Whitespace)}
        Nth(S, k) == CHOOSE i \in S : Cardinality({j \in S : j <= i}) = k
    IN  [k \in 1..Cardinality(starts) |-> SubSeq(s, Nth(starts, k), Nth(ends, k))]

\* ' '.join(words)
RECURSIVE join(_)
join(words) ==
    IF words = <<>> THEN <<>>
    ELSE IF Len(words) = 1 THEN words[1]
    ELSE words[1] \o <<" ">> \o join(Tail(words))

\* ''.join(parts)
RECURSIVE concat(_)
concat(parts) == IF parts = <<>> THEN <<>> ELSE Head(parts) \o concat(Tail(parts))


-----------------------------------------------------------------------------
(* agent_manager/utils.py: find_spoken_portion                             *)

\* lines 71-77: the exact substring match, cut out of the original text at the
\* position found in the lowered text
SubstringResult(full_text, full_lower, utterance_lower) ==
    LET start_pos == Find(full_lower, utterance_lower)
        end_pos == start_pos + Len(utterance_lower)
    IN  Prefix(full_text, end_pos)

\* lines 93-100: how many trailing words of the utterance equal the trailing
\* words of the text segment, right to left, up to the first mismatch
RECURSIVE MatchCountFrom(_, _, _, _)
MatchCountFrom(utterance_words, text_words, i, min_len) ==
    IF /\ i < min_len
       /\ utterance_words[Len(utterance_words) - i] = text_words[Len(text_words) - i]
    THEN MatchCountFrom(utterance_words, text_words, i + 1, min_len)
    ELSE i

MatchCount(utterance_words, text_words) ==
    MatchCountFrom(utterance_words, text_words, 0,
                   Min(Len(utterance_words), Len(text_words)))

\* lines 88-107: the loop over end_pos, returning best_match_pos
RECURSIVE BestMatchLoopNoBreak(_, _, _, _)
BestMatchLoopNoBreak(full_words, utterance_words, end_pos, best_match_pos) ==
    IF end_pos > Len(full_words) THEN best_match_pos
    ELSE LET match_count == MatchCount(utterance_words, Prefix(full_words, end_pos))
         IN  BestMatchLoopNoBreak(full_words, utterance_words, end_pos + 1,
                 IF match_count > 0 THEN end_pos ELSE best_match_pos)

RECURSIVE BestMatchLoop(_, _, _, _)
BestMatchLoop(full_words, utterance_words, end_pos, best_match_pos) ==
    IF end_pos > Len(full_words) THEN best_match_pos
    ELSE LET match_count == MatchCount(utterance_words, Prefix(full_words, end_pos))
         IN  IF match_count = Len(utterance_words) THEN end_pos
             ELSE IF match_count > 0
                  THEN BestMatchLoop(full_words, utterance_words, end_pos + 1, end_pos)
                  ELSE BestMatchLoop(full_words, utterance_words, end_pos + 1,
                                     best_match_pos)

\* the same returning every word when nothing matched
AlignmentResultWhole(original_words, best_match_pos) ==
    IF best_match_pos > 0
    THEN join(Prefix(original_words, best_match_pos))
    ELSE join(original_words)

\* lines 109-115
AlignmentResult(original_words, best_match_pos) ==
    IF best_match_pos > 0
    THEN join(Prefix(original_words, best_match_pos))
    ELSE <<>>

\* lines 57-115
find_spoken_portion(full_text, utterance_until_interrupt) ==
    IF utterance_until_interrupt = <<>> \/ full_text = <<>> THEN <<>>
    ELSE
      LET full_lower == lower(full_text)
          utterance_lower == lower(utterance_until_interrupt)
      IN  IF Contains(full_lower, utterance_lower)
          THEN SubstringResult(full_text, full_lower, utterance_lower)
          ELSE
            LET full_words == split(full_lower)
                utterance_words == split(utterance_lower)
                original_words == split(full_text)
            IN  IF utterance_words = <<>> \/ full_words = <<>> THEN <<>>
                ELSE AlignmentResult(original_words,
                                     BestMatchLoop(full_words, utterance_words, 1, 0))

-----------------------------------------------------------------------------
(* agent_manager/utils.py: redact_conversation_history                     *)

\* A history entry.  Python's normal entries have no "type" key; the model
\* writes type "normal" for them.
UserEntry(content) == [role |-> "user", content |-> content, type |-> "normal"]

AssistantEntry(content) == [role |-> "assistant", content |-> content, type |-> "normal"]

InterstitialEntry(content) ==
    [role |-> "assistant", content |-> content, type |-> "interstitial"]

\* the same scan stopping at interstitial entries too
RECURSIVE FindAssistantAny(_, _)
FindAssistantAny(history, i) ==
    IF i < 1 THEN 0
    ELSE IF history[i].role = "assistant" THEN i
    ELSE FindAssistantAny(history, i - 1)

\* lines 20-25: scanning from the end, the first assistant entry that is not
\* an interstitial; 0 when the scan finds none
RECURSIVE FindAssistant(_, _)
FindAssistant(history, i) ==
    IF i < 1 THEN 0
    ELSE IF history[i].role = "assistant" /\ history[i].type # "interstitial" THEN i
    ELSE FindAssistant(history, i - 1)

\* history.pop() in place of history.pop(i)
PopLast(history, i) == SubSeq(history, 1, Len(history) - 1)

\* history.pop(i)
Pop(history, i) == SubSeq(history, 1, i - 1) \o SubSeq(history, i + 1, Len(history))

NoResult == [success |-> FALSE, message |-> "none"]

\* the same with the removal forgotten: the entry is always overwritten
RedactEntryNoPop(session_id, utt, histories, i) ==
    LET full_response == histories[session_id][i].content
        spoken_portion == find_spoken_portion(full_response, utt)
    IN  [histories |-> [histories EXCEPT ![session_id][i].content = spoken_portion],
         result |-> [success |-> TRUE,
                     message |-> "Conversation history redacted",
                     spoken_text |-> spoken_portion,
                     original_text |-> full_response,
                     redacted_text |-> full_response]]

\* lines 27-52, for the entry found at index i
RedactEntry(session_id, utt, histories, i) ==
    LET history == histories[session_id]
        full_response == history[i].content
        spoken_portion == find_spoken_portion(full_response, utt)
        result == [success |-> TRUE,
                   message |-> "Conversation history redacted",
                   spoken_text |-> spoken_portion,
                   original_text |-> full_response,
                   redacted_text |->
                       IF spoken_portion # <<>>
                       THEN SubSeq(full_response, Len(spoken_portion) + 1,
                                   Len(full_response))
                       ELSE full_response]
    IN  IF strip(spoken_portion) # <<>>
        THEN [histories |->
                  [histories EXCEPT ![session_id][i].content = spoken_portion],
              result |-> result]
        ELSE [histories |-> [histories EXCEPT ![session_id] = Pop(history, i)],
              result |-> result]

\* lines 2-54: the new histories and the returned dict
redact_conversation_history(session_id, utt, histories) ==
    IF session_id \notin DOMAIN histories \/ histories[session_id] = <<>>
    THEN [histories |-> histories,
          result |-> [success |-> FALSE, message |-> "No conversation history found"]]
    ELSE LET i == FindAssistant(histories[session_id], Len(histories[session_id]))
         IN  IF i = 0
             THEN [histories |-> histories,
                   result |-> [success |-> FALSE,
                               message |-> "No assistant message found to redact"]]
             ELSE RedactEntry(session_id, utt, histories, i)


-----------------------------------------------------------------------------
(* llm_handler.py: llm_call_response_streaming                             *)

MaxChunkLen == 200

TruncatedLen == 197

WordThreshold == 3

Punctuation == {".", "!", "?", ",", ";", ":"}

Ellipsis == <<".", ".", ".">>

HandoffMarker ==
    <<"H", "A", "N", "D", "O", "F", "F", "_", "H", "U", "M", "A", "N", ":">>

CallEndMarker == <<"C", "A", "L", "L", "_", "E", "N", "D", ":">>

\* agent.py line 231
ApologyText ==
    << "I", "'", "m", " ", "s", "o", "r", "r", "y", ",", " ", "I", "'", "m", " ",
       "h", "a", "v", "i", "n", "g", " ", "t", "r", "o", "u", "b", "l", "e", " ",
       "p", "r", "o", "c", "e", "s", "s", "i", "n", "g", " ", "y", "o", "u", "r",
       " ", "r", "e", "q", "u", "e", "s", "t", " ", "r", "i", "g", "h", "t", " ",
       "n", "o", "w", "." >>

\* the dicts the generator yields (agent.py lines 171-177, 182-188, 220-226,
\* 230-236)
Event(chunk, is_final, end_call, handoff, is_interstitial) ==
    [chunk |-> chunk, is_final |-> is_final, should_end_call |-> end_call,
     should_handoff |-> handoff, is_interstitial |-> is_interstitial]

\* the messages sent to the websocket
TextMsg(token, last) == [type |-> "text", token |-> token, last |-> last]

EndMsg(handoff) == [type |-> "end", handoffData |-> handoff]

\* line 99
WordsInBuffer(buf) == Len(split(strip(buf)))

\* str.endswith of a tuple of one-character suffixes
EndsWithPunctuation(s) == s # <<>> /\ s[Len(s)] \in Punctuation

\* lines 102-106, with the punctuation test forgotten
ShouldSendWordsOnly(ev, buf) ==
    \/ ev.is_final
    \/ WordsInBuffer(buf) >= WordThreshold

\* lines 102-106
ShouldSend(ev, buf) ==
    \/ ev.is_final
    \/ WordsInBuffer(buf) >= WordThreshold
    \/ EndsWithPunctuation(strip(ev.chunk))

\* line 108, with the blank-buffer test forgotten
FlushNowAlways(ev, buf) == ShouldSend(ev, buf)

\* line 108
FlushNow(ev, buf) == ShouldSend(ev, buf) /\ strip(buf) # <<>>

\* lines 110-112, with the cap forgotten
SendChunkUncapped(buf) == buf

\* lines 110-112
SendChunk(buf) ==
    IF Len(buf) > MaxChunkLen THEN Prefix(buf, TruncatedLen) \o Ellipsis ELSE buf

\* line 126, with the buffer kept after a send
BufferAfterSendKept(buf) == buf

\* line 126
BufferAfterSend(buf) == <<>>

\* text.split(marker, 1)[1].strip()
AfterMarker(text, marker) ==
    strip(SubSeq(text, Find(text, marker) + Len(marker) + 1, Len(text)))

\* lines 72-75, with the test for an interstitial forgotten
BypassesChunkerNever(ev) == FALSE

\* lines 72-75: an interstitial is sent at once and skips the rest of the
\* iteration
BypassesChunker(ev) == ev.is_interstitial

\* lines 68-126: one iteration of the async for, on the event ev
ConsumeEvent(ev) ==
    /\ chunk_pc = "loop"
    /\ IF BypassesChunker(ev)
       THEN /\ sent' = Append(sent, TextMsg(ev.chunk, TRUE))
            /\ UNCHANGED <<token_buffer, full_response_parts, should_end_call,
                           should_handoff>>
       ELSE LET buf == token_buffer \o ev.chunk
            IN  /\ full_response_parts' = Append(full_response_parts, ev.chunk)
                /\ should_end_call' = (should_end_call \/ ev.should_end_call)
                /\ should_handoff' = (should_handoff \/ ev.should_handoff)
                /\ IF FlushNow(ev, buf)
                   THEN /\ sent' = Append(sent, TextMsg(SendChunk(buf), FALSE))
                        /\ token_buffer' = BufferAfterSend(buf)
                   ELSE /\ sent' = sent
                        /\ token_buffer' = buf
    \* the generator's last yield is its final or its fallback event
    /\ chunk_pc' = IF ev.is_final /\ ~ev.is_interstitial THEN "post" ELSE "loop"
    /\ UNCHANGED logged_response

\* lines 181-204, with the elif of line 193 written as an if
TerminalSignalsBoth(handoff, end_call) ==
    (IF handoff THEN <<EndMsg(TRUE)>> ELSE <<>>)
        \o (IF end_call THEN <<EndMsg(FALSE)>> ELSE <<>>)

\* lines 181-204: human_agent_handoff, or else end_call, or nothing
TerminalSignals(handoff, end_call) ==
    IF handoff THEN <<EndMsg(TRUE)>>
    ELSE IF end_call THEN <<EndMsg(FALSE)>>
    ELSE <<>>

\* lines 128-204: after the loop
PostLoop ==
    /\ chunk_pc = "post"
    /\ LET flushed == IF strip(token_buffer) # <<>>
                      THEN Append(sent, TextMsg(token_buffer, FALSE))
                      ELSE sent
           completed == Append(flushed, TextMsg(<<>>, TRUE))
           full_response == concat(full_response_parts)
           marked == Contains(full_response, HandoffMarker)
           handoff == should_handoff \/ marked
       IN  /\ should_handoff' = handoff
           /\ logged_response' = IF marked
                                 THEN AfterMarker(full_response, HandoffMarker)
                                 ELSE full_response
           /\ sent' = completed \o TerminalSignals(handoff, should_end_call)
    /\ chunk_pc' = "done"
    /\ UNCHANGED <<token_buffer, full_response_parts, should_end_call>>

\* the state of the locals at line 65, nothing sent yet
ChunkerStart ==
    /\ token_buffer = <<>>
    /\ full_response_parts = <<>>
    /\ should_end_call = FALSE
    /\ should_handoff = FALSE
    /\ logged_response = <<>>
    /\ sent = <<>>
    /\ chunk_pc = "loop"

\* handlers.py lines 13-38: StreamingCallbackHandler.__init__
HandlerStart ==
    /\ tokens = <<>>
    /\ tool_executing = FALSE
    /\ call_end_detected = FALSE
    /\ handoff_detected = FALSE
    /\ interstitial_sent = FALSE
    /\ interstitial_ready = FALSE
    /\ sent_interstitials = <<>>
    /\ phrase_index = 0
    /\ timer = "none"

\* agent.py: no turn has started, no generator is running
StreamStart ==
    /\ stream_session_id = "none"
    /\ thread = "none"
    /\ agent_pc = "start"
    /\ tool_runs = 0
    /\ poll_pc = "idle"
    /\ last_token_count = 0
    /\ current_token_count = 0
    /\ token_i = 0
    /\ interstitial_sent_this_response = FALSE
    /\ events = <<>>
    /\ turn = 0

\* no interrupt handling in progress
RedactStart ==
    /\ conversation_histories = [s \in {} |-> <<>>]
    /\ utterance = <<>>
    /\ redaction_result = NoResult
    /\ interrupts = 0

-----------------------------------------------------------------------------
(* The inputs: texts.                                                      *)

Chars == {"a", "A", " ", "U0130"}

\* every text of at most MaxTextLen characters
ShortTexts == UNION {[1..n -> Chars] : n \in 0..MaxTextLen}

\* one-letter words, and the separators between them
WordSet == {<<"a">>, <<"b">>}

Seps == {<<" ">>, <<" ", " ">>}

RECURSIVE JoinSep(_, _)
JoinSep(words, sep) ==
    IF Len(words) = 1 THEN words[1]
    ELSE words[1] \o sep \o JoinSep(Tail(words), sep)

\* texts of at most MaxWords words with one separator throughout
WordTexts ==
    {JoinSep(ws, sep) : ws \in UNION {[1..n -> WordSet] : n \in 1..MaxWords},
                        sep \in Seps}

Texts == ShortTexts \cup WordTexts

InterstitialPhrases ==
    << <<"P0">>, <<"P1">>, <<"P2">>, <<"P3">>, <<"P4">>, <<"P5">> >>

UserText == <<"u">>

Sessions == {"s1"}

\* the call of a session (callSid of its setup message)
CallSidOf == [s \in Sessions |-> "c1"]

CallSids == {CallSidOf[s] : s \in Sessions}

\* conversation.py lines 16-21 and agent.py line 19: the dictionaries of a
\* fresh process, and a websocket that has been accepted (lines 71-72)
NoSession ==
    /\ session_state = [s \in {} |-> [call_sid |-> "none"]]
    /\ connections = {}
    /\ session_conversation_loggers = {}
    /\ call_sid_to_session_id = [c \in {} |-> "none"]
    /\ ws_session_id = "none"
    /\ websocket = "open"
    /\ parked = <<>>
    /\ inbox = <<>>

\* conversation.py lines 91-120: the state after the setup message of a call
SessionSetUp ==
    /\ session_state = [s \in Sessions |-> [call_sid |-> CallSidOf[s]]]
    /\ connections = Sessions
    /\ session_conversation_loggers = Sessions
    /\ call_sid_to_session_id = [c \in CallSids |->
                                    CHOOSE s \in Sessions : CallSidOf[s] = c]
    /\ ws_session_id \in Sessions
    /\ websocket = "open"
    /\ parked = <<>>
    /\ inbox = <<>>

-----------------------------------------------------------------------------
(* The interruption path: conversation.py, "interrupt" messages.           *)

\* the assistant text of an earlier turn
EarlierText == <<"a", " ", "b">>

\* The histories a call can have reached when an interrupt arrives: none yet,
\* a failed turn (user entry only), a successful turn, a successful turn that
\* emitted an interstitial, such a turn after its assistant entry was removed
\* by an earlier interrupt, and a second turn after a first one.
HistoryShapes(T) ==
    { <<>>,
      <<UserEntry(UserText)>>,
      <<UserEntry(UserText), AssistantEntry(T)>>,
      <<UserEntry(UserText), AssistantEntry(T),
        InterstitialEntry(InterstitialPhrases[1])>>,
      <<UserEntry(UserText), InterstitialEntry(InterstitialPhrases[1])>>,
      <<UserEntry(UserText), AssistantEntry(EarlierText),
        InterstitialEntry(InterstitialPhrases[1]),
        UserEntry(UserText), AssistantEntry(T),
        InterstitialEntry(InterstitialPhrases[2])>> }

InitRedact ==
    /\ \E T \in Texts : \E h \in HistoryShapes(T) :
          conversation_histories \in {[s \in Sessions |-> h], [s \in {} |-> h]}
    /\ utterance \in Texts
    /\ redaction_result = NoResult
    /\ interrupts = 0
    /\ ChunkerStart
    /\ HandlerStart
    /\ StreamStart
    /\ SessionSetUp
    /\ AGENT_SESSIONS = DOMAIN conversation_histories

\* conversation.py lines 161-183: the handling of an interrupt message
HandleInterrupt(session_id) ==
    /\ interrupts < MaxInterrupts
    /\ LET r == redact_conversation_history(session_id, utterance,
                                            conversation_histories)
       IN  /\ conversation_histories' = r.histories
           /\ redaction_result' = r.result
    /\ interrupts' = interrupts + 1
    /\ UNCHANGED <<utterance, chunker_vars, handler_vars, stream_vars>>

\* an interrupt message is received and handled
Interrupt(session_id) == HandleInterrupt(session_id) /\ UNCHANGED session_vars

NextRedact == \E s \in Sessions : Interrupt(s)

SpecRedact == InitRedact /\ [][NextRedact]_vars

-----------------------------------------------------------------------------
(* One turn of llm_call_response_streaming, fed by the generator.          *)

LongFragment == [i \in 1..LongFragmentLen |-> "x"]

\* the output fragments of the language model
Fragments ==
    {<<" ">>, <<" ", "b">>, <<"c", ".">>, LongFragment, HandoffMarker, CallEndMarker}

\* handlers.py lines 83-88: a tool start may have set the handler's flags
\* since the last yield; nothing resets them during a turn
FlagsRaised ==
    /\ call_end_detected' \in {b \in BOOLEAN : call_end_detected => b}
    /\ handoff_detected' \in {b \in BOOLEAN : handoff_detected => b}

\* handlers.py lines 141-143: get_next_interstitial
NextPhraseIndex(i) == (i + 1) % Len(InterstitialPhrases)

\* agent.py lines 164-177: the generator yields an interstitial
YieldInterstitial ==
    /\ ~interstitial_sent_this_response
    /\ ~call_end_detected /\ ~handoff_detected
    /\ ConsumeEvent(Event(InterstitialPhrases[phrase_index + 1], TRUE, FALSE, FALSE,
                          TRUE))
    /\ phrase_index' = NextPhraseIndex(phrase_index)
    /\ interstitial_sent_this_response' = TRUE
    /\ UNCHANGED <<session_vars, redact_vars, tokens, tool_executing, call_end_detected,
                   handoff_detected, interstitial_sent, interstitial_ready,
                   sent_interstitials, timer, stream_session_id, thread, agent_pc,
                   tool_runs, poll_pc,
                   last_token_count, current_token_count, token_i, events, turn>>

\* agent.py lines 180-188: the generator yields an output fragment
YieldToken ==
    /\ Len(full_response_parts) < MaxEvents
    /\ FlagsRaised
    /\ \E token \in Fragments :
          ConsumeEvent(Event(token, FALSE, call_end_detected', handoff_detected',
                             FALSE))
    /\ UNCHANGED <<session_vars, redact_vars, tokens, tool_executing, interstitial_sent,
                   interstitial_ready, sent_interstitials, phrase_index, timer,
                   stream_vars>>

\* agent.py lines 219-226: the generator's final yield
YieldFinal ==
    /\ FlagsRaised
    /\ ConsumeEvent(Event(<<>>, TRUE, call_end_detected', handoff_detected', FALSE))
    /\ UNCHANGED <<session_vars, redact_vars, tokens, tool_executing, interstitial_sent,
                   interstitial_ready, sent_interstitials, phrase_index, timer,
                   stream_vars>>

\* agent.py lines 228-236: the generator's fallback yield
YieldFallback ==
    /\ FlagsRaised
    /\ ConsumeEvent(Event(ApologyText, TRUE, FALSE, FALSE, FALSE))
    /\ UNCHANGED <<session_vars, redact_vars, tokens, tool_executing, interstitial_sent,
                   interstitial_ready, sent_interstitials, phrase_index, timer,
                   stream_vars>>

AfterLoop == PostLoop /\ UNCHANGED <<session_vars, redact_vars, handler_vars, stream_vars>>

InitChunker ==
    /\ ChunkerStart /\ RedactStart /\ HandlerStart /\ StreamStart
    /\ SessionSetUp /\ AGENT_SESSIONS = {}

NextChunker ==
    \/ YieldInterstitial
    \/ YieldToken
    \/ YieldFinal
    \/ YieldFallback
    \/ AfterLoop

SpecChunker == InitChunker /\ [][NextChunker]_vars


-----------------------------------------------------------------------------
(* agent_manager/handlers.py: StreamingCallbackHandler, and the thread of  *)
(* its threading.Timer.                                                    *)

NoInterstitialTools == {"end_call", "escalate_to_human_agent"}

ToolNames == {"end_call", "escalate_to_human_agent", "check_stock"}

\* the output fragments of the language model in the streaming model
StreamTokens == {<<"a">>, <<" ">>}

\* Thread.is_alive() of the timer
TimerAlive(t) == t \in {"waiting", "firing", "cancelled"}

\* Timer.cancel(): ends the wait; a callback already past the wait still runs
Cancel(t) == IF t = "waiting" THEN "cancelled" ELSE t

\* lines 145-160
should_send_interstitial ==
    /\ interstitial_ready
    /\ ~interstitial_sent
    /\ ~call_end_detected
    /\ ~handoff_detected

\* lines 40-57
on_llm_new_token(token) ==
    /\ tokens' = Append(tokens, token)
    /\ timer' = Cancel(timer)
    /\ interstitial_sent' =
           (IF interstitial_sent /\ strip(token) # <<>> THEN FALSE
            ELSE interstitial_sent)
    /\ UNCHANGED <<tool_executing, call_end_detected, handoff_detected,
                   interstitial_ready, sent_interstitials, phrase_index>>

\* lines 59-69
on_llm_start ==
    /\ interstitial_sent' = FALSE
    /\ interstitial_ready' = FALSE
    /\ UNCHANGED <<tokens, tool_executing, call_end_detected, handoff_detected,
                   sent_interstitials, phrase_index, timer>>

\* the same arming the timer for every tool
on_tool_start_always_arms(tool_name) ==
    /\ tool_executing' = TRUE
    /\ call_end_detected' = (call_end_detected \/ tool_name = "end_call")
    /\ handoff_detected' =
           (handoff_detected \/ (tool_name # "end_call"
                                 /\ tool_name = "escalate_to_human_agent"))
    /\ timer' = IF ~TimerAlive(timer) THEN "waiting" ELSE timer
    /\ UNCHANGED <<tokens, interstitial_sent, interstitial_ready, sent_interstitials,
                   phrase_index>>

\* lines 71-96
on_tool_start(tool_name) ==
    /\ tool_executing' = TRUE
    /\ call_end_detected' = (call_end_detected \/ tool_name = "end_call")
    /\ handoff_detected' =
           (handoff_detected \/ (tool_name # "end_call"
                                 /\ tool_name = "escalate_to_human_agent"))
    /\ timer' = IF /\ tool_name # "end_call"
                   /\ tool_name # "escalate_to_human_agent"
                   /\ tool_name \notin NoInterstitialTools
                   /\ ~TimerAlive(timer)
                THEN "waiting"
                ELSE timer
    /\ UNCHANGED <<tokens, interstitial_sent, interstitial_ready, sent_interstitials,
                   phrase_index>>

\* lines 98-107
on_llm_end ==
    /\ timer' = Cancel(timer)
    /\ UNCHANGED <<tokens, tool_executing, call_end_detected, handoff_detected,
                   interstitial_sent, interstitial_ready, sent_interstitials,
                   phrase_index>>

\* the same clearing the flags of the tool that ended
on_tool_end_clears_flags ==
    /\ tool_executing' = FALSE
    /\ call_end_detected' = FALSE
    /\ handoff_detected' = FALSE
    /\ UNCHANGED <<tokens, interstitial_sent, interstitial_ready, sent_interstitials,
                   phrase_index, timer>>

\* lines 109-122
on_tool_end ==
    /\ tool_executing' = FALSE
    /\ UNCHANGED <<tokens, call_end_detected, handoff_detected, interstitial_sent,
                   interstitial_ready, sent_interstitials, phrase_index, timer>>

trigger_interstitial_when_idle ==
    /\ interstitial_ready' =
           (IF /\ ~tool_executing
               /\ ~interstitial_sent
               /\ ~interstitial_ready
               /\ ~(call_end_detected \/ handoff_detected)
            THEN TRUE
            ELSE interstitial_ready)

\* lines 124-133: the timer's callback
trigger_interstitial ==
    /\ interstitial_ready' =
           (IF /\ ~interstitial_sent
               /\ ~interstitial_ready
               /\ ~(call_end_detected \/ handoff_detected)
            THEN TRUE
            ELSE interstitial_ready)

-----------------------------------------------------------------------------
(* agent.py: run_agent on the background thread.  The agent executor calls *)
(* the handler in its protocol: a model run (start, fragments, end), then   *)
(* either the answer or tool runs (start, end) followed by another model    *)
(* run.  Any step may raise instead.                                        *)

unchanged_poll == UNCHANGED <<stream_session_id, poll_pc, last_token_count,
                              current_token_count, token_i,
                              interstitial_sent_this_response, events, turn>>

unchanged_other == UNCHANGED <<session_vars, redact_vars, chunker_vars>>

OnLlmStart ==
    /\ thread = "alive"
    /\ agent_pc \in {"start", "after_tool"}
    /\ on_llm_start
    /\ agent_pc' = "llm"
    /\ UNCHANGED <<thread, tool_runs>>
    /\ unchanged_poll /\ unchanged_other

OnLlmNewToken ==
    /\ thread = "alive"
    /\ agent_pc = "llm"
    /\ Len(tokens) < MaxTokens
    /\ \E token \in StreamTokens : on_llm_new_token(token)
    /\ UNCHANGED <<thread, agent_pc, tool_runs>>
    /\ unchanged_poll /\ unchanged_other

OnLlmEnd ==
    /\ thread = "alive"
    /\ agent_pc = "llm"
    /\ on_llm_end
    /\ agent_pc' = "decide"
    /\ UNCHANGED <<thread, tool_runs>>
    /\ unchanged_poll /\ unchanged_other

OnToolStart ==
    /\ thread = "alive"
    /\ agent_pc \in {"decide", "after_tool"}
    /\ tool_runs < MaxToolRuns
    /\ \E tool_name \in ToolNames : on_tool_start(tool_name)
    /\ agent_pc' = "tool"
    /\ tool_runs' = tool_runs + 1
    /\ UNCHANGED thread
    /\ unchanged_poll /\ unchanged_other

OnToolEnd ==
    /\ thread = "alive"
    /\ agent_pc = "tool"
    /\ on_tool_end
    /\ agent_pc' = "after_tool"
    /\ UNCHANGED <<thread, tool_runs>>
    /\ unchanged_poll /\ unchanged_other

\* the same steps in the specifications that, for the size of their state
\* space, let a turn stream at most one fragment or start at most one tool
OneFragment == tokens = <<>> /\ OnLlmNewToken

OneTool == tool_runs = 0 /\ OnToolStart

\* lines 82-86: invoke returns, the thread ends
AgentReturns ==
    /\ thread = "alive"
    /\ agent_pc = "decide"
    /\ thread' = "returned"
    /\ UNCHANGED <<agent_pc, tool_runs, handler_vars>>
    /\ unchanged_poll /\ unchanged_other

\* lines 87-88: invoke raises, the thread ends
AgentRaises ==
    /\ thread = "alive"
    /\ thread' = "raised"
    /\ UNCHANGED <<agent_pc, tool_runs, handler_vars>>
    /\ unchanged_poll /\ unchanged_other

-----------------------------------------------------------------------------
(* The thread of threading.Timer(0.4, self._trigger_interstitial).         *)

unchanged_stream == UNCHANGED stream_vars

\* the wait of 0.4 s ends without a cancel
TimerElapses ==
    /\ timer = "waiting"
    /\ timer' = "firing"
    /\ UNCHANGED <<tokens, tool_executing, call_end_detected, handoff_detected,
                   interstitial_sent, interstitial_ready, sent_interstitials,
                   phrase_index>>
    /\ unchanged_stream /\ unchanged_other

\* the callback runs and the thread ends
TimerFires ==
    /\ timer = "firing"
    /\ trigger_interstitial
    /\ timer' = "none"
    /\ UNCHANGED <<tokens, tool_executing, call_end_detected, handoff_detected,
                   interstitial_sent, sent_interstitials, phrase_index>>
    /\ unchanged_stream /\ unchanged_other

\* a cancelled timer's thread ends
TimerExits ==
    /\ timer = "cancelled"
    /\ timer' = "none"
    /\ UNCHANGED <<tokens, tool_executing, call_end_detected, handoff_detected,
                   interstitial_sent, interstitial_ready, sent_interstitials,
                   phrase_index>>
    /\ unchanged_stream /\ unchanged_other

-----------------------------------------------------------------------------
(* agent.py: generate_agent_response_stream                                *)

\* the user message appended to the history of every session
WithUserMessageShared(histories, s, user_message) ==
    [t \in DOMAIN histories \cup {s} |->
        IF t \in DOMAIN histories
        THEN Append(histories[t], UserEntry(user_message))
        ELSE <<UserEntry(user_message)>>]

\* lines 106-111: the history with the user message appended
WithUserMessage(histories, s, user_message) ==
    IF s \in DOMAIN histories
    THEN [histories EXCEPT ![s] = Append(@, UserEntry(user_message))]
    ELSE [t \in DOMAIN histories \cup {s} |->
             IF t = s THEN <<UserEntry(user_message)>> ELSE histories[t]]

\* the reset with the fragments of the last turn kept
ResetTurnStateKeepsTokens ==
    /\ tokens' = tokens
    /\ tool_executing' = FALSE
    /\ call_end_detected' = FALSE
    /\ handoff_detected' = FALSE
    /\ interstitial_sent' = FALSE
    /\ interstitial_ready' = FALSE
    /\ sent_interstitials' = <<>>
    /\ timer' = Cancel(timer)
    /\ phrase_index' = phrase_index

\* the reset with the rotation cursor reset too
ResetTurnStateAndCursor ==
    /\ tokens' = <<>>
    /\ tool_executing' = FALSE
    /\ call_end_detected' = FALSE
    /\ handoff_detected' = FALSE
    /\ interstitial_sent' = FALSE
    /\ interstitial_ready' = FALSE
    /\ sent_interstitials' = <<>>
    /\ timer' = Cancel(timer)
    /\ phrase_index' = 0

\* lines 131-142: the handler's state is reset for the new request
ResetTurnState ==
    /\ tokens' = <<>>
    /\ tool_executing' = FALSE
    /\ call_end_detected' = FALSE
    /\ handoff_detected' = FALSE
    /\ interstitial_sent' = FALSE
    /\ interstitial_ready' = FALSE
    /\ sent_interstitials' = <<>>
    /\ timer' = Cancel(timer)
    /\ phrase_index' = phrase_index

BeginTurnAnyTime(s) ==
    /\ poll_pc \in {"idle", "head", "check", "emit", "tokens", "join"}
    /\ conversation_histories' = WithUserMessage(conversation_histories, s, UserText)
    /\ ResetTurnState
    /\ stream_session_id' = s
    /\ thread' = "alive"
    /\ agent_pc' = "start"
    /\ tool_runs' = 0
    /\ last_token_count' = 0
    /\ current_token_count' = 0
    /\ token_i' = 0
    /\ interstitial_sent_this_response' = FALSE
    /\ events' = <<>>
    /\ turn' = turn + 1
    /\ poll_pc' = "head"
    /\ AGENT_SESSIONS' = AGENT_SESSIONS \cup {s}
    /\ UNCHANGED <<utterance, redaction_result, interrupts>>
    /\ UNCHANGED <<chunker_vars, conn_vars>>

\* lines 106-158: a turn starts.  conversationrelay awaits the whole of
\* llm_call_response_streaming for a prompt before it receives the next
\* message (conversation.py lines 78 and 158), so a turn starts only when no
\* turn is running.
BeginTurn(s) ==
    /\ poll_pc = "idle"
    /\ conversation_histories' = WithUserMessage(conversation_histories, s, UserText)
    /\ ResetTurnState
    /\ stream_session_id' = s
    /\ thread' = "alive"
    /\ agent_pc' = "start"
    /\ tool_runs' = 0
    /\ last_token_count' = 0
    /\ current_token_count' = 0
    /\ token_i' = 0
    /\ interstitial_sent_this_response' = FALSE
    /\ events' = <<>>
    /\ turn' = turn + 1
    /\ poll_pc' = "head"
    /\ AGENT_SESSIONS' = AGENT_SESSIONS \cup {s}
    /\ UNCHANGED <<utterance, redaction_result, interrupts>>
    /\ UNCHANGED <<chunker_vars, conn_vars>>

\* a turn of the session, while the bound on turns allows one
StartTurn(s) == turn < MaxTurns /\ BeginTurn(s)

unchanged_thread == UNCHANGED <<stream_session_id, thread, agent_pc, tool_runs, turn>>

\* line 160, with the test for undelivered tokens forgotten
LoopContinuesAliveOnly == thread = "alive"

\* line 160, with <= for <
LoopContinuesOffByOne == thread = "alive" \/ last_token_count <= Len(tokens)

\* line 160
LoopContinues == thread = "alive" \/ last_token_count < Len(tokens)

\* lines 160-161
LoopHead ==
    /\ poll_pc = "head"
    /\ IF LoopContinues
       THEN /\ current_token_count' = Len(tokens)
            /\ poll_pc' = "check"
       ELSE /\ current_token_count' = current_token_count
            /\ poll_pc' = "join"
    /\ UNCHANGED <<last_token_count, token_i, interstitial_sent_this_response, events>>
    /\ UNCHANGED handler_vars
    /\ unchanged_thread /\ unchanged_other

\* line 164, with the per-response flag forgotten
SendInterstitialNowNoLocal == should_send_interstitial

\* line 164
SendInterstitialNow == should_send_interstitial /\ ~interstitial_sent_this_response

\* line 164
CheckInterstitial ==
    /\ poll_pc = "check"
    /\ IF SendInterstitialNow
       THEN /\ poll_pc' = "emit"
            /\ token_i' = token_i
       ELSE /\ poll_pc' = "tokens"
            /\ token_i' = last_token_count
    /\ UNCHANGED <<last_token_count, current_token_count,
                   interstitial_sent_this_response, events>>
    /\ UNCHANGED handler_vars
    /\ unchanged_thread /\ unchanged_other

\* lines 165-177
EmitInterstitial ==
    /\ poll_pc = "emit"
    /\ LET interstitial == InterstitialPhrases[phrase_index + 1]
       IN  /\ phrase_index' = NextPhraseIndex(phrase_index)
           /\ interstitial_sent' = TRUE
           /\ interstitial_ready' = FALSE
           /\ interstitial_sent_this_response' = TRUE
           /\ sent_interstitials' = Append(sent_interstitials, interstitial)
           /\ events' = Append(events, Event(interstitial, TRUE, FALSE, FALSE, TRUE))
    /\ poll_pc' = "tokens"
    /\ token_i' = last_token_count
    /\ UNCHANGED <<last_token_count, current_token_count>>
    /\ UNCHANGED <<tokens, tool_executing, call_end_detected, handoff_detected, timer>>
    /\ unchanged_thread /\ unchanged_other

\* lines 180-192: one iteration of the for loop, or its end and the sleep
YieldTokens ==
    /\ poll_pc = "tokens"
    /\ IF token_i < current_token_count
       THEN /\ events' = Append(events,
                                Event(tokens[token_i + 1], FALSE, call_end_detected,
                                      handoff_detected, FALSE))
            /\ token_i' = token_i + 1
            /\ UNCHANGED <<poll_pc, last_token_count>>
       ELSE /\ last_token_count' = current_token_count
            /\ poll_pc' = "head"
            /\ UNCHANGED <<events, token_i>>
    /\ UNCHANGED <<current_token_count, interstitial_sent_this_response>>
    /\ UNCHANGED handler_vars
    /\ unchanged_thread /\ unchanged_other

\* the content of the assistant entry, always stripped
CleanResponseStripped(full_response) == strip(full_response)

\* lines 202-212: the content of the assistant entry
CleanResponse(full_response) ==
    IF call_end_detected /\ Contains(full_response, CallEndMarker)
    THEN AfterMarker(full_response, CallEndMarker)
    ELSE IF handoff_detected /\ Contains(full_response, HandoffMarker)
    THEN AfterMarker(full_response, HandoffMarker)
    ELSE full_response

\* lines 214-217 left out
NoInterstitialEntries == <<>>

\* lines 214-217
InterstitialEntries ==
    [k \in 1..Len(sent_interstitials) |-> InterstitialEntry(sent_interstitials[k])]

\* the final event without the handler's flags
FinalEventNoFlags == Event(<<>>, TRUE, FALSE, FALSE, FALSE)

\* lines 220-226
FinalEvent == Event(<<>>, TRUE, call_end_detected, handoff_detected, FALSE)

\* lines 230-236
FallbackEvent == Event(ApologyText, TRUE, FALSE, FALSE, FALSE)

\* lines 195-236: the thread is joined, the turn is finished
FinishTurn ==
    /\ poll_pc = "join"
    /\ thread \in {"returned", "raised"}
    /\ IF thread = "raised"
       THEN /\ events' = Append(events, FallbackEvent)
            /\ UNCHANGED conversation_histories
       ELSE /\ conversation_histories' =
                   [conversation_histories EXCEPT ![stream_session_id] =
                        Append(@, AssistantEntry(CleanResponse(concat(tokens))))
                        \o InterstitialEntries]
            /\ events' = Append(events, FinalEvent)
    /\ poll_pc' = "idle"
    /\ UNCHANGED <<last_token_count, current_token_count, token_i,
                   interstitial_sent_this_response>>
    /\ UNCHANGED handler_vars
    /\ unchanged_thread
    /\ UNCHANGED <<utterance, redaction_result, interrupts, chunker_vars, session_vars>>

Init ==
    /\ RedactStart /\ ChunkerStart /\ HandlerStart /\ StreamStart
    /\ SessionSetUp /\ AGENT_SESSIONS = {}

Next ==
    \/ \E s \in Sessions : StartTurn(s)
    \/ LoopHead
    \/ CheckInterstitial
    \/ EmitInterstitial
    \/ YieldTokens
    \/ FinishTurn
    \/ OnLlmStart
    \/ OnLlmNewToken
    \/ OnLlmEnd
    \/ OnToolStart
    \/ OnToolEnd
    \/ AgentReturns
    \/ AgentRaises
    \/ TimerElapses
    \/ TimerFires
    \/ TimerExits

Spec == Init /\ [][Next]_vars

\* The generator is a sequential loop that the consumer iterates to its end
\* (llm_handler.py line 67): whenever it has a next step it takes it.  The
\* agent's thread and the prompts are not under this assumption.
PollingFairness ==
    /\ WF_vars(LoopHead)
    /\ WF_vars(CheckInterstitial)
    /\ WF_vars(EmitInterstitial)
    /\ WF_vars(YieldTokens)
    /\ WF_vars(FinishTurn)

NextFair ==
    \/ \E s \in Sessions : StartTurn(s)
    \/ LoopHead
    \/ CheckInterstitial
    \/ EmitInterstitial
    \/ YieldTokens
    \/ FinishTurn
    \/ OnLlmStart
    \/ OnLlmNewToken
    \/ OnLlmEnd
    \/ OneTool
    \/ OnToolEnd
    \/ AgentReturns
    \/ AgentRaises
    \/ TimerElapses
    \/ TimerFires
    \/ TimerExits

SpecFair == Init /\ [][NextFair]_vars /\ PollingFairness

-----------------------------------------------------------------------------
(* One turn in which the model's output may hold the sentinel markers that *)
(* the tools return (agent_manager/tools.py lines 100 and 252), after a     *)
(* first turn that succeeded.                                               *)

MarkerTokens == {CallEndMarker, HandoffMarker}

\* the model emits a marker as an output fragment
OnLlmMarkerToken ==
    /\ thread = "alive"
    /\ agent_pc = "llm"
    /\ Len(tokens) < MaxTokens
    /\ \E token \in MarkerTokens : on_llm_new_token(token)
    /\ UNCHANGED <<thread, agent_pc, tool_runs>>
    /\ unchanged_poll /\ unchanged_other

\* the state after a first turn that answered "a"
InitMarkers ==
    /\ conversation_histories =
           [s \in Sessions |-> <<UserEntry(UserText), AssistantEntry(<<"a">>)>>]
    /\ utterance = <<>>
    /\ redaction_result = NoResult
    /\ interrupts = 0
    /\ ChunkerStart
    /\ SessionSetUp
    /\ AGENT_SESSIONS = Sessions
    /\ tokens = << <<"a">> >>
    /\ tool_executing = FALSE
    /\ call_end_detected = FALSE
    /\ handoff_detected = FALSE
    /\ interstitial_sent = FALSE
    /\ interstitial_ready = FALSE
    /\ sent_interstitials = <<>>
    /\ phrase_index = 0
    /\ timer = "none"
    /\ stream_session_id \in Sessions
    /\ thread = "returned"
    /\ agent_pc = "decide"
    /\ tool_runs = 0
    /\ poll_pc = "idle"
    /\ last_token_count = 1
    /\ current_token_count = 1
    /\ token_i = 1
    /\ interstitial_sent_this_response = FALSE
    /\ events = <<Event(<<"a">>, FALSE, FALSE, FALSE, FALSE),
                  Event(<<>>, TRUE, FALSE, FALSE, FALSE)>>
    /\ turn = MaxTurns - 1

NextMarkers == Next \/ OnLlmMarkerToken

SpecMarkers == InitMarkers /\ [][NextMarkers]_vars

-----------------------------------------------------------------------------
(* The rotation of the interstitial phrases over the turns of a long      *)
(* session.  The session has had MaxRotationTurns - 2 turns, all failed,   *)
(* of which any number up to five yielded an interstitial; the next turns  *)
(* stream no fragments.                                                     *)

PriorTurns == MaxRotationTurns - 2

InitRotation ==
    /\ conversation_histories =
           [s \in Sessions |-> [k \in 1..PriorTurns |-> UserEntry(UserText)]]
    /\ utterance = <<>>
    /\ redaction_result = NoResult
    /\ interrupts = 0
    /\ ChunkerStart
    /\ SessionSetUp
    /\ AGENT_SESSIONS = Sessions
    /\ tokens = <<>>
    /\ tool_executing = FALSE
    /\ call_end_detected = FALSE
    /\ handoff_detected = FALSE
    /\ interstitial_sent = FALSE
    /\ interstitial_ready = FALSE
    /\ sent_interstitials = <<>>
    /\ phrase_index \in 0..Min(PriorTurns, Len(InterstitialPhrases) - 1)
    /\ timer = "none"
    /\ stream_session_id \in Sessions
    /\ thread = "raised"
    /\ agent_pc = "start"
    /\ tool_runs = 0
    /\ poll_pc = "idle"
    /\ last_token_count = 0
    /\ current_token_count = 0
    /\ token_i = 0
    /\ interstitial_sent_this_response = FALSE
    /\ events = <<FallbackEvent>>
    /\ turn = PriorTurns

StartRotationTurn(s) == turn < MaxRotationTurns /\ BeginTurn(s)

NextRotation ==
    \/ \E s \in Sessions : StartRotationTurn(s)
    \/ LoopHead
    \/ CheckInterstitial
    \/ EmitInterstitial
    \/ YieldTokens
    \/ FinishTurn
    \/ OnLlmStart
    \/ OnLlmEnd
    \/ OnToolStart
    \/ OnToolEnd
    \/ AgentReturns
    \/ AgentRaises
    \/ TimerElapses
    \/ TimerFires
    \/ TimerExits

SpecRotation == InitRotation /\ [][NextRotation]_vars

-----------------------------------------------------------------------------
(* The slow tool: the first turn of a session, in which the first tool is   *)
(* one that arms the timer, starts before any output fragment and runs      *)
(* longer than the timer's delay of 0.4 s (handlers.py line 93).  The model *)
(* has no clock; the durations are kept as the order of events they         *)
(* enforce: the timer's wait is over, its callback has run, and the polling *)
(* loop, which sleeps 0.001 s per iteration (agent.py line 192), has taken  *)
(* up what the callback left, before the tool ends or raises.               *)

\* the timer's thread has ended and the polling loop has nothing of it left
\* to take up
DelayPassed == timer = "none" /\ ~interstitial_ready

\* the first tool of the turn is still running
InFirstTool == agent_pc = "tool" /\ tool_runs = 1

StartSlowTurn(s) == turn = 0 /\ BeginTurn(s)

\* no output fragment before the first tool
SlowOnLlmNewToken == tool_runs >= 1 /\ OnLlmNewToken

\* the tools of the turn raise no call-end or handoff flag
SlowOnToolStart ==
    /\ OnToolStart
    /\ ~call_end_detected'
    /\ ~handoff_detected'

SlowOnToolEnd == (InFirstTool => DelayPassed) /\ OnToolEnd

SlowAgentRaises == (InFirstTool => DelayPassed) /\ AgentRaises

NextSlowTool ==
    \/ \E s \in Sessions : StartSlowTurn(s)
    \/ LoopHead
    \/ CheckInterstitial
    \/ EmitInterstitial
    \/ YieldTokens
    \/ FinishTurn
    \/ OnLlmStart
    \/ SlowOnLlmNewToken
    \/ OnLlmEnd
    \/ SlowOnToolStart
    \/ SlowOnToolEnd
    \/ AgentReturns
    \/ SlowAgentRaises
    \/ TimerElapses
    \/ TimerFires
    \/ TimerExits

SpecSlowTool == Init /\ [][NextSlowTool]_vars

-----------------------------------------------------------------------------
(* The life of a session: conversation.py, the websocket handler           *)
(* conversationrelay with its setup message and its cleanup on close, and   *)
(* app.py, the session_end webhook.                                         *)

MaxSessionTurns == 2

\* del d[k] and d[k] = v on a dictionary
Del(d, k) == [x \in DOMAIN d \ {k} |-> d[x]]
Put(d, k, v) == [x \in DOMAIN d \cup {k} |-> IF x = k THEN v ELSE d[x]]

\* conversation.py lines 23-58; None is "none".  The result is the four
\* dictionaries the function deletes from.
cleanup_session_data(session_id, call_sid) ==
    LET known == session_id \in DOMAIN session_state
        sid   == IF known /\ call_sid = "none"
                 THEN session_state[session_id].call_sid
                 ELSE call_sid
    IN  IF session_id = "none"
        THEN [session_state |-> session_state,
              connections |-> connections,
              session_conversation_loggers |-> session_conversation_loggers,
              call_sid_to_session_id |-> call_sid_to_session_id]
        ELSE [session_state |-> Del(session_state, session_id),
              connections |-> connections \ {session_id},
              session_conversation_loggers |->
                  session_conversation_loggers \ {session_id},
              call_sid_to_session_id |->
                  IF sid # "none" /\ sid \in DOMAIN call_sid_to_session_id
                  THEN Del(call_sid_to_session_id, sid)
                  ELSE call_sid_to_session_id]

\* the dictionaries become what cleanup_session_data leaves
Cleanup(session_id, call_sid) ==
    LET r == cleanup_session_data(session_id, call_sid)
    IN  /\ session_state' = r.session_state
        /\ connections' = r.connections
        /\ session_conversation_loggers' = r.session_conversation_loggers
        /\ call_sid_to_session_id' = r.call_sid_to_session_id

\* the handler is waiting for a message (line 78), no turn is running
Receiving == websocket = "open" /\ poll_pc = "idle"

\* conversation.py lines 91-120: the setup message
Setup(s, c) ==
    /\ Receiving
    /\ ws_session_id' = s
    /\ connections' = connections \cup {s}
    /\ session_state' = Put(session_state, s, [call_sid |-> c])
    /\ call_sid_to_session_id' = Put(call_sid_to_session_id, c, s)
    /\ session_conversation_loggers' = session_conversation_loggers \cup {s}
    /\ UNCHANGED <<websocket, AGENT_SESSIONS, parked, inbox>>
    /\ UNCHANGED <<redact_vars, chunker_vars, handler_vars, stream_vars>>

\* conversation.py lines 123-158: a prompt message starts a turn when the
\* session is set up and still has its logger
Prompt(s) ==
    /\ Receiving
    /\ ws_session_id = s
    /\ s \in session_conversation_loggers
    /\ turn < MaxSessionTurns
    /\ BeginTurn(s)

\* conversation.py lines 189-210: the websocket closes; the finally block
\* cleans up if a session was set up
Disconnect ==
    /\ Receiving
    /\ websocket' = "closed"
    /\ Cleanup(ws_session_id, "none")
    /\ UNCHANGED <<ws_session_id, AGENT_SESSIONS, parked, inbox>>
    /\ UNCHANGED <<redact_vars, chunker_vars, handler_vars, stream_vars>>

\* app.py lines 129-135: the session_end webhook of a known call
SessionEnd(c) ==
    /\ c \in DOMAIN call_sid_to_session_id
    /\ Cleanup(call_sid_to_session_id[c], c)
    /\ UNCHANGED <<ws_session_id, websocket, AGENT_SESSIONS, parked, inbox>>
    /\ UNCHANGED <<redact_vars, chunker_vars, handler_vars, stream_vars>>

InitSession ==
    /\ RedactStart /\ ChunkerStart /\ HandlerStart /\ StreamStart
    /\ NoSession /\ AGENT_SESSIONS = {}

NextSession ==
    \/ \E s \in Sessions : \E c \in CallSids : Setup(s, c)
    \/ \E s \in Sessions : Prompt(s)
    \/ Disconnect
    \/ \E c \in CallSids : SessionEnd(c)
    \/ LoopHead
    \/ CheckInterstitial
    \/ EmitInterstitial
    \/ YieldTokens
    \/ FinishTurn
    \/ OnLlmStart
    \/ OnLlmEnd
    \/ OnToolStart
    \/ OnToolEnd
    \/ AgentReturns
    \/ AgentRaises
    \/ TimerElapses
    \/ TimerFires
    \/ TimerExits

SpecSession == InitSession /\ [][NextSession]_vars

-----------------------------------------------------------------------------
(* Two sessions at once.  Each session has its own history in              *)
(* conversation_histories, its own handler in AGENT_SESSIONS (agent.py      *)
(* lines 115-128), its own generation thread, timer and generator.  The      *)
(* variables of handlers.py and agent.py describe the session                *)
(* stream_session_id; the other session's are kept in parked, and Switch     *)
(* changes which session the next steps belong to, so the steps of the two   *)
(* sessions interleave in every order.  For the size of the state space a    *)
(* turn here streams at most one fragment, a turn of s1 starts at most one   *)
(* tool and a turn of s2 none.                                                *)

TwoSessions == {"s1", "s2"}

\* the handler and the generator of the session stream_session_id
Snapshot ==
    [tokens |-> tokens,
     tool_executing |-> tool_executing,
     call_end_detected |-> call_end_detected,
     handoff_detected |-> handoff_detected,
     interstitial_sent |-> interstitial_sent,
     interstitial_ready |-> interstitial_ready,
     sent_interstitials |-> sent_interstitials,
     phrase_index |-> phrase_index,
     timer |-> timer,
     thread |-> thread,
     agent_pc |-> agent_pc,
     tool_runs |-> tool_runs,
     poll_pc |-> poll_pc,
     last_token_count |-> last_token_count,
     current_token_count |-> current_token_count,
     token_i |-> token_i,
     interstitial_sent_this_response |-> interstitial_sent_this_response,
     events |-> events]

\* handlers.py lines 13-38 and agent.py lines 115-126: a session that has
\* had no turn
FreshSession ==
    [tokens |-> <<>>,
     tool_executing |-> FALSE,
     call_end_detected |-> FALSE,
     handoff_detected |-> FALSE,
     interstitial_sent |-> FALSE,
     interstitial_ready |-> FALSE,
     sent_interstitials |-> <<>>,
     phrase_index |-> 0,
     timer |-> "none",
     thread |-> "none",
     agent_pc |-> "start",
     tool_runs |-> 0,
     poll_pc |-> "idle",
     last_token_count |-> 0,
     current_token_count |-> 0,
     token_i |-> 0,
     interstitial_sent_this_response |-> FALSE,
     events |-> <<>>]

\* the steps that follow belong to session s
Switch(s) ==
    /\ s \in DOMAIN parked
    /\ parked' = [x \in (DOMAIN parked \ {s}) \cup {stream_session_id} |->
                      IF x = stream_session_id THEN Snapshot ELSE parked[x]]
    /\ stream_session_id' = s
    /\ tokens' = parked[s].tokens
    /\ tool_executing' = parked[s].tool_executing
    /\ call_end_detected' = parked[s].call_end_detected
    /\ handoff_detected' = parked[s].handoff_detected
    /\ interstitial_sent' = parked[s].interstitial_sent
    /\ interstitial_ready' = parked[s].interstitial_ready
    /\ sent_interstitials' = parked[s].sent_interstitials
    /\ phrase_index' = parked[s].phrase_index
    /\ timer' = parked[s].timer
    /\ thread' = parked[s].thread
    /\ agent_pc' = parked[s].agent_pc
    /\ tool_runs' = parked[s].tool_runs
    /\ poll_pc' = parked[s].poll_pc
    /\ last_token_count' = parked[s].last_token_count
    /\ current_token_count' = parked[s].current_token_count
    /\ token_i' = parked[s].token_i
    /\ interstitial_sent_this_response' = parked[s].interstitial_sent_this_response
    /\ events' = parked[s].events
    /\ UNCHANGED <<turn, AGENT_SESSIONS, session_state, connections,
                   session_conversation_loggers, call_sid_to_session_id,
                   ws_session_id, websocket, inbox>>
    /\ UNCHANGED <<redact_vars, chunker_vars>>

\* where the generator of session s is
PollPcOf(s) == IF s = stream_session_id THEN poll_pc ELSE parked[s].poll_pc

\* a prompt of the session whose steps these are
StartTurnOf(s) == s = stream_session_id /\ StartTurn(s)

\* an interrupt message of session s; its connection handles it between
\* the session's turns
InterruptOf(s) == PollPcOf(s) = "idle" /\ interrupts = 0 /\ Interrupt(s)

TwoOnToolStart == stream_session_id = "s1" /\ OneTool

InitTwoSessions ==
    /\ conversation_histories = [s \in {} |-> <<>>]
    /\ utterance = <<"b">>
    /\ redaction_result = NoResult
    /\ interrupts = 0
    /\ ChunkerStart /\ HandlerStart
    /\ stream_session_id = "s1"
    /\ thread = "none"
    /\ agent_pc = "start"
    /\ tool_runs = 0
    /\ poll_pc = "idle"
    /\ last_token_count = 0
    /\ current_token_count = 0
    /\ token_i = 0
    /\ interstitial_sent_this_response = FALSE
    /\ events = <<>>
    /\ turn = 0
    /\ parked = [s \in TwoSessions \ {"s1"} |-> FreshSession]
    /\ inbox = <<>>
    /\ session_state = [s \in TwoSessions |-> [call_sid |-> "none"]]
    /\ connections = TwoSessions
    /\ session_conversation_loggers = TwoSessions
    /\ call_sid_to_session_id = [c \in {} |-> "none"]
    /\ ws_session_id = "s1"
    /\ websocket = "open"
    /\ AGENT_SESSIONS = {}

NextTwoSessions ==
    \/ \E s \in TwoSessions : Switch(s)
    \/ \E s \in TwoSessions : StartTurnOf(s)
    \/ \E s \in TwoSessions : InterruptOf(s)
    \/ LoopHead
    \/ CheckInterstitial
    \/ EmitInterstitial
    \/ YieldTokens
    \/ FinishTurn
    \/ OnLlmStart
    \/ OneFragment
    \/ OnLlmEnd
    \/ TwoOnToolStart
    \/ OnToolEnd
    \/ AgentReturns
    \/ AgentRaises
    \/ TimerElapses
    \/ TimerFires
    \/ TimerExits

SpecTwoSessions == InitTwoSessions /\ [][NextTwoSessions]_vars

-----------------------------------------------------------------------------
(* Interrupt messages and turns on one connection.  Twilio sends an         *)
(* interrupt message when the caller talks over the speech of a turn; it     *)
(* waits in the websocket until conversationrelay, which is inside           *)
(* llm_call_response_streaming while a turn runs, receives it (conversation  *)
(* .py lines 78, 158 and 161).                                               *)

\* an interrupt message is sent while a turn is streaming; one in the life
\* of the connection
InterruptArrives ==
    /\ poll_pc # "idle"
    /\ interrupts = 0
    /\ inbox = <<>>
    /\ inbox' = <<"interrupt">>
    /\ UNCHANGED <<session_state, connections, session_conversation_loggers,
                   call_sid_to_session_id, ws_session_id, websocket, parked,
                   AGENT_SESSIONS>>
    /\ UNCHANGED <<redact_vars, chunker_vars, handler_vars, stream_vars>>

\* conversation.py lines 78 and 161-183: the message is received when no
\* turn is running, and handled
ReceiveInterrupt(s) ==
    /\ Receiving
    /\ s = ws_session_id
    /\ inbox # <<>>
    /\ Head(inbox) = "interrupt"
    /\ inbox' = Tail(inbox)
    /\ HandleInterrupt(s)
    /\ UNCHANGED <<session_state, connections, session_conversation_loggers,
                   call_sid_to_session_id, ws_session_id, websocket, parked,
                   AGENT_SESSIONS>>

\* conversation.py lines 78 and 123-158: a prompt message is received after
\* the messages sent before it
PromptTurn(s) ==
    /\ Receiving
    /\ s = ws_session_id
    /\ inbox = <<>>
    /\ StartTurn(s)

InitInterruptTurn ==
    /\ conversation_histories = [s \in {} |-> <<>>]
    /\ utterance \in {<<"a">>, <<"b">>}
    /\ redaction_result = NoResult
    /\ interrupts = 0
    /\ ChunkerStart /\ HandlerStart /\ StreamStart
    /\ SessionSetUp /\ AGENT_SESSIONS = {}

NextInterruptTurn ==
    \/ \E s \in Sessions : PromptTurn(s)
    \/ InterruptArrives
    \/ \E s \in Sessions : ReceiveInterrupt(s)
    \/ LoopHead
    \/ CheckInterstitial
    \/ EmitInterstitial
    \/ YieldTokens
    \/ FinishTurn
    \/ OnLlmStart
    \/ OneFragment
    \/ OnLlmEnd
    \/ OneTool
    \/ OnToolEnd
    \/ AgentReturns
    \/ AgentRaises
    \/ TimerElapses
    \/ TimerFires
    \/ TimerExits

SpecInterruptTurn == InitInterruptTurn /\ [][NextInterruptTurn]_vars

-----------------------------------------------------------------------------
(* Properties of the interruption path, checked under SpecRedact.          *)

IsPrefixOf(p, t) == Len(p) <= Len(t) /\ SubSeq(t, 1, Len(p)) = p

IsNormalAssistant(e) == e.role = "assistant" /\ e.type # "interstitial"

\* the index of the most recent assistant entry of normal kind, 0 if none
LastNormalAssistant(h) ==
    IF \E i \in 1..Len(h) : IsNormalAssistant(h[i])
    THEN CHOOSE i \in 1..Len(h) :
            /\ IsNormalAssistant(h[i])
            /\ \A j \in (i + 1)..Len(h) : ~IsNormalAssistant(h[j])
    ELSE 0

\* h without its i-th entry
Without(h, i) == [j \in 1..(Len(h) - 1) |-> IF j < i THEN h[j] ELSE h[j + 1]]

\* the words the alignment compares
TextWords(T) == split(lower(T))

\* the prefix lengths e of T's words whose trailing words are all words of U
FullMatches(T, U) ==
    LET TW == TextWords(T)
        UW == TextWords(U)
    IN  {e \in 1..Len(TW) :
            /\ UW # <<>>
            /\ e >= Len(UW)
            /\ \A i \in 1..Len(UW) : UW[Len(UW) - i + 1] = TW[e - i + 1]}

\* how many trailing words of U equal the trailing words of T's first e words
TrailMatch(T, U, e) ==
    LET TW == TextWords(T)
        UW == TextWords(U)
        ok == {m \in 0..Min(Len(UW), e) :
                  \A i \in 1..m : UW[Len(UW) - i + 1] = TW[e - i + 1]}
    IN  CHOOSE m \in ok : \A n \in ok : n <= m

MaxTrail(T, U) ==
    LET ms == {TrailMatch(T, U, e) : e \in 1..Len(TextWords(T))}
    IN  IF ms = {} THEN 0 ELSE CHOOSE m \in ms : \A n \in ms : n <= m

SetMin(S) == CHOOSE m \in S : \A n \in S : m <= n

\* an interrupt has been handled and redacted the text T = original_text
Redacted == interrupts >= 1 /\ redaction_result.success

\* C7: find_spoken_portion(T, "") is "" for every T, so an interrupt with an
\* empty utterance removes the most recent assistant entry of normal kind
\* and leaves every other entry in place.
C7_EmptyUtteranceRemoves ==
    [][\A s \in Sessions :
          ( /\ interrupts' = interrupts + 1
            /\ utterance = <<>>
            /\ s \in DOMAIN conversation_histories
            /\ LastNormalAssistant(conversation_histories[s]) # 0 )
          => LET h == conversation_histories[s]
                 i == LastNormalAssistant(h)
             IN  /\ redaction_result'.success
                 /\ redaction_result'.original_text = h[i].content
                 /\ redaction_result'.spoken_text = <<>>
                 /\ conversation_histories'[s] = Without(h, i)]_vars

\* C7's case: an empty utterance met a non-empty assistant text, which is gone.
C7_Witness ==
    /\ Redacted
    /\ utterance = <<>>
    /\ redaction_result.original_text # <<>>
    /\ "s1" \in DOMAIN conversation_histories
    /\ conversation_histories["s1"] # <<>>
    /\ LastNormalAssistant(conversation_histories["s1"]) = 0

\* C8: when lower(U) occurs in lower(T) for a non-empty U, the result is the
\* prefix of T that ends exactly where the first occurrence ends, that is the
\* prefix of T whose lowered form is lower(T) up to the end of the occurrence.
C8_SubstringPrefix ==
    LET T == redaction_result.original_text
        R == redaction_result.spoken_text
        U == utterance
    IN  ( /\ Redacted
          /\ U # <<>>
          /\ Contains(lower(T), lower(U)) )
        => /\ IsPrefixOf(R, T)
           /\ lower(R) = Prefix(lower(T), Find(lower(T), lower(U)) + Len(lower(U)))

\* C9: when U is not a case-insensitive substring of T and some word prefix
\* of T ends with all words of U, the result is the original words of T
\* joined by single spaces up to the smallest such prefix length.
C9_SmallestFullMatch ==
    LET T == redaction_result.original_text
        R == redaction_result.spoken_text
        U == utterance
    IN  ( /\ Redacted
          /\ ~Contains(lower(T), lower(U))
          /\ FullMatches(T, U) # {} )
        => R = join(Prefix(split(T), SetMin(FullMatches(T, U))))

\* C9's case: the fallback ran and two different prefix lengths match fully.
C9_Witness ==
    LET T == redaction_result.original_text
        U == utterance
    IN  /\ Redacted
        /\ ~Contains(lower(T), lower(U))
        /\ Cardinality(FullMatches(T, U)) >= 2
        /\ redaction_result.spoken_text =
               join(Prefix(split(T), SetMin(FullMatches(T, U))))

\* C10: when the fallback finds no full match, the returned prefix length is
\* one that achieved the largest partial trailing-word match.
C10_BestPartialMatch ==
    LET T == redaction_result.original_text
        R == redaction_result.spoken_text
        U == utterance
    IN  ( /\ Redacted
          /\ ~Contains(lower(T), lower(U))
          /\ TextWords(U) # <<>>
          /\ FullMatches(T, U) = {}
          /\ MaxTrail(T, U) > 0 )
        => \E k \in 1..Len(TextWords(T)) :
              /\ TrailMatch(T, U, k) = MaxTrail(T, U)
              /\ R = join(Prefix(split(T), k))

\* the number of assistant entries of normal kind in h
NormalAssistantCount(h) == Cardinality({i \in 1..Len(h) : IsNormalAssistant(h[i])})

\* neither search finds a match of U in T
NoMatch(T, U) == ~Contains(lower(T), lower(U)) /\ MaxTrail(T, U) = 0

\* the step is the handling of an interrupt for a session whose history has
\* an assistant entry of normal kind
InterruptOnAssistant(s) ==
    /\ interrupts' = interrupts + 1
    /\ s \in DOMAIN conversation_histories
    /\ LastNormalAssistant(conversation_histories[s]) # 0

\* C11: when neither the substring search nor the word alignment finds a
\* match of a non-empty utterance, the spoken portion is empty, the most
\* recent assistant entry of normal kind is removed and success is reported.
C11_NoMatchRemoves ==
    [][\A s \in Sessions :
          LET h == conversation_histories[s]
              i == LastNormalAssistant(h)
          IN  ( /\ InterruptOnAssistant(s)
                /\ utterance # <<>>
                /\ NoMatch(h[i].content, utterance) )
              => /\ redaction_result'.success
                 /\ redaction_result'.spoken_text = <<>>
                 /\ conversation_histories'[s] = Without(h, i)]_vars

\* C11's case: an utterance with words met an assistant text with words, no
\* word matched, and the entry is gone.
C11_Witness ==
    /\ Redacted
    /\ interrupts = 1
    /\ TextWords(utterance) # <<>>
    /\ Len(TextWords(redaction_result.original_text)) >= 2
    /\ NoMatch(redaction_result.original_text, utterance)
    /\ redaction_result.spoken_text = <<>>
    /\ LastNormalAssistant(conversation_histories["s1"]) = 0

\* C12: an interrupt changes only the most recent assistant entry of normal
\* kind: its content becomes the spoken portion when that is not blank, and
\* the entry is removed otherwise; every other entry stays as and where it
\* is, and the history loses at most one entry.
C12_OnlyLastAssistantChanges ==
    [][\A s \in Sessions :
          LET h == conversation_histories[s]
              i == LastNormalAssistant(h)
              spoken == redaction_result'.spoken_text
          IN  InterruptOnAssistant(s)
              => /\ redaction_result'.original_text = h[i].content
                 /\ conversation_histories'[s] =
                        IF strip(spoken) # <<>>
                        THEN [h EXCEPT ![i].content = spoken]
                        ELSE Without(h, i)
                 /\ Len(conversation_histories'[s]) >= Len(h) - 1]_vars

\* C12's case: the second turn's assistant entry was removed; the first
\* turn's entries and both interstitial entries are as they were.
C12_Witness ==
    /\ Redacted
    /\ interrupts = 1
    /\ \E T \in Texts :
          /\ T = redaction_result.original_text
          /\ conversation_histories["s1"] =
                 <<UserEntry(UserText), AssistantEntry(EarlierText),
                   InterstitialEntry(InterstitialPhrases[1]),
                   UserEntry(UserText),
                   InterstitialEntry(InterstitialPhrases[2])>>

\* C13: when the session has no history, an empty one, or one without an
\* assistant entry of normal kind, an interrupt reports no success and leaves
\* the histories as they are.
C13_NothingToRedact ==
    [][\A s \in Sessions :
          ( /\ interrupts' = interrupts + 1
            /\ \/ s \notin DOMAIN conversation_histories
               \/ LastNormalAssistant(conversation_histories[s]) = 0 )
          => /\ ~redaction_result'.success
             /\ conversation_histories' = conversation_histories]_vars

\* C13's case: an interrupt met a history that ends with an interstitial
\* entry and has no assistant entry of normal kind; the entry is still there.
C13_Witness ==
    /\ interrupts = 1
    /\ ~redaction_result.success
    /\ redaction_result.message = "No assistant message found to redact"
    /\ conversation_histories["s1"] =
           <<UserEntry(UserText), InterstitialEntry(InterstitialPhrases[1])>>

\* the history of s held exactly one assistant entry of normal kind before
\* the interrupt that has just been handled with success
HadOneAssistant(s) ==
    /\ interrupts = 1
    /\ redaction_result.success
    /\ s \in DOMAIN conversation_histories
    /\ NormalAssistantCount(conversation_histories[s])
         + (IF strip(redaction_result.spoken_text) = <<>> THEN 1 ELSE 0) = 1

\* C14: when the history held exactly one assistant entry of normal kind, a
\* second interrupt with the same utterance reports "No assistant message
\* found to redact", whether the first one removed or shortened the entry.
C14_SecondCallFindsNothing ==
    [][\A s \in Sessions :
          (HadOneAssistant(s) /\ interrupts' = 2)
          => /\ ~redaction_result'.success
             /\ redaction_result'.message = "No assistant message found to redact"]_vars


-----------------------------------------------------------------------------
(* Properties of llm_call_response_streaming, checked under SpecChunker.   *)

\* a text chunk: the messages of lines 116-121 and 131-136
IsChunkMsg(m) == m.type = "text" /\ ~m.last

\* the completion marker of lines 140-145
IsCompletionMsg(m) == m.type = "text" /\ m.last /\ m.token = <<>>

\* the tokens of the text chunks sent so far, in send order
SentChunks ==
    LET msgs == SelectSeq(sent, IsChunkMsg)
    IN  [i \in 1..Len(msgs) |-> msgs[i].token]

\* a chunk that was cut: MaxChunkLen characters ending with the ellipsis
IsTruncated(token) ==
    /\ Len(token) = MaxChunkLen
    /\ SubSeq(token, TruncatedLen + 1, MaxChunkLen) = Ellipsis

CompletionCount == Cardinality({i \in 1..Len(sent) : IsCompletionMsg(sent[i])})

\* C4: chunks are neither reordered nor duplicated.  While no chunk has been
\* cut, the chunks sent so far followed by the pending buffer are the
\* concatenation of the non-interstitial event chunks received so far, and
\* at the end of the turn the pending remainder is whitespace only.
C4_ChunksInOrder ==
    (\A i \in 1..Len(SentChunks) : ~IsTruncated(SentChunks[i]))
    => /\ concat(SentChunks) \o token_buffer = concat(full_response_parts)
       /\ chunk_pc = "done" => strip(token_buffer) = <<>>

\* C4's case: a finished turn that sent several chunks and kept a blank rest.
C4_Witness ==
    /\ chunk_pc = "done"
    /\ Len(SentChunks) >= 2
    /\ SentChunks[1] # SentChunks[2]
    /\ \A i \in 1..Len(SentChunks) : ~IsTruncated(SentChunks[i])
    /\ token_buffer # <<>>

\* C5: every text chunk sent has at most 200 characters, and a buffer of more
\* than 200 characters is sent as its first 197 characters and "...".
C5_ChunkCap ==
    [][ /\ \A i \in 1..Len(sent') :
              IsChunkMsg(sent'[i]) => Len(sent'[i].token) <= MaxChunkLen
        /\ ( /\ chunk_pc = "loop"
             /\ Len(full_response_parts') = Len(full_response_parts) + 1
             /\ Len(token_buffer
                    \o full_response_parts'[Len(full_response_parts')]) > MaxChunkLen
             /\ Len(sent') = Len(sent) + 1 )
           => sent'[Len(sent')].token =
                  SubSeq(token_buffer \o full_response_parts'[Len(full_response_parts')],
                         1, TruncatedLen) \o Ellipsis
        /\ ( /\ chunk_pc = "post"
             /\ Len(token_buffer) > MaxChunkLen
             /\ strip(token_buffer) # <<>> )
           => sent'[Len(sent) + 1].token =
                  SubSeq(token_buffer, 1, TruncatedLen) \o Ellipsis ]_vars

\* C5's case: more than 200 characters were pending and a cut chunk was sent.
C5_Witness ==
    /\ Len(concat(full_response_parts)) > MaxChunkLen
    /\ \E i \in 1..Len(SentChunks) :
          /\ IsTruncated(SentChunks[i])
          /\ SubSeq(SentChunks[i], 1, TruncatedLen)
                 = SubSeq(concat(full_response_parts), 1, TruncatedLen)

\* C6: every text message sent has a non-blank token, except the completion
\* marker (token "", last), which is sent exactly once per turn, after every
\* other text message of the turn.
C6_NoBlankChunks ==
    /\ \A i \in 1..Len(sent) :
          sent[i].type = "text"
          => strip(sent[i].token) # <<>> \/ IsCompletionMsg(sent[i])
    /\ CompletionCount = (IF chunk_pc = "done" THEN 1 ELSE 0)
    /\ \A i, j \in 1..Len(sent) :
          (IsCompletionMsg(sent[i]) /\ sent[j].type = "text" /\ j # i) => j < i

\* C6's case: a finished turn whose events began with a blank fragment and
\* that sent a chunk and then the completion marker.
C6_Witness ==
    /\ chunk_pc = "done"
    /\ Len(full_response_parts) >= 2
    /\ strip(full_response_parts[1]) = <<>>
    /\ full_response_parts[1] # <<>>
    /\ Len(SentChunks) >= 1
    /\ CompletionCount = 1

-----------------------------------------------------------------------------
(* Properties of a turn of generate_agent_response_stream.  The variable   *)
(* events holds the events the generator has yielded in the running turn.  *)

IsInterstitialEvent(e) == e.is_interstitial

\* a chunk event that carries a produced fragment
IsFragmentEvent(e) == ~e.is_interstitial /\ ~e.is_final

\* a fragment event whose text is not blank
IsSpokenEvent(e) == IsFragmentEvent(e) /\ strip(e.chunk) # <<>>

InterstitialCount ==
    Cardinality({k \in 1..Len(events) : IsInterstitialEvent(events[k])})

\* the fragments yielded so far, in the order of their events
YieldedFragments ==
    LET fragment_events == SelectSeq(events, IsFragmentEvent)
    IN  [k \in 1..Len(fragment_events) |-> fragment_events[k].chunk]

\* the position of the turn's final event, 0 when it has not been yielded
FinalPositions ==
    {k \in 1..Len(events) : events[k].is_final /\ ~events[k].is_interstitial}

TurnFinished == turn >= 1 /\ poll_pc = "idle"

\* C1: in every turn the generator yields at most one event with
\* is_interstitial = true, however many tools start, timers fire and model
\* runs restart in the turn.
C1_AtMostOneInterstitial == InterstitialCount <= 1

\* C1: an interstitial was yielded, a model run reset the handler's flag, a
\* later tool armed the timer again and the timer fired: the handler asks for
\* a second interstitial while the polling loop is at its check.
C1_Witness ==
    /\ InterstitialCount = 1
    /\ interstitial_sent_this_response
    /\ should_send_interstitial
    /\ tool_runs >= 2
    /\ poll_pc = "check"

\* C2: within a turn no interstitial event is yielded after a fragment event
\* with spoken text of that turn.
C2_InterstitialBeforeChunks ==
    \A i \in 1..Len(events) : \A j \in 1..Len(events) :
        (i < j /\ IsSpokenEvent(events[i])) => ~IsInterstitialEvent(events[j])

\* C3: the fragment events of the turn are the produced fragments, each once
\* and in production order; when the turn is finished every produced fragment
\* has been yielded, and the final event is the single last event.
C3_FragmentsOnceInOrder ==
    /\ Len(YieldedFragments) <= Len(tokens)
    /\ YieldedFragments = SubSeq(tokens, 1, Len(YieldedFragments))
    /\ FinalPositions \subseteq {Len(events)}
    /\ TurnFinished =>
           /\ YieldedFragments = tokens
           /\ FinalPositions = {Len(events)}

\* C3: a finished turn in which the thread produced two different fragments,
\* the second one after the polling loop had already yielded the first.
C3_Witness ==
    /\ TurnFinished
    /\ Len(tokens) = 2
    /\ tokens[1] # tokens[2]
    /\ Len(events) = 4
    /\ IsFragmentEvent(events[1])
    /\ IsInterstitialEvent(events[2])
    /\ IsFragmentEvent(events[3])

-----------------------------------------------------------------------------
(* Properties of the end of a turn: the history and the final event.       *)

\* the step starts a turn
IsTurnStart == turn' = turn + 1

\* the step finishes a turn whose generation succeeded / raised
IsFinishOfSuccess == poll_pc = "join" /\ poll_pc' = "idle" /\ thread = "returned"

IsFinishOfFailure == poll_pc = "join" /\ poll_pc' = "idle" /\ thread = "raised"

\* the texts of the interstitial events of the turn, in order
EmittedInterstitials ==
    LET interstitial_events == SelectSeq(events, IsInterstitialEvent)
    IN  [k \in 1..Len(interstitial_events) |-> interstitial_events[k].chunk]

HasMarker(text) == Contains(text, CallEndMarker) \/ Contains(text, HandoffMarker)

\* the history of session s, <<>> when it has none
HistoryOf(histories, s) == IF s \in DOMAIN histories THEN histories[s] ELSE <<>>

\* the history of the running turn's session
TurnHistory == HistoryOf(conversation_histories, stream_session_id)

LastEvent == events[Len(events)]

\* C16: the events of a turn hold no final non-interstitial event before the
\* last one; a finished turn's last event is such a final event, and after a
\* successful generation it carries the handler's call_end_detected and
\* handoff_detected as they are at completion.
C16_OneFinalEventLast ==
    /\ \A k \in 1..(Len(events) - 1) :
           events[k].is_final => events[k].is_interstitial
    /\ TurnFinished =>
           /\ events # <<>>
           /\ LastEvent.is_final /\ ~LastEvent.is_interstitial
           /\ thread = "returned" =>
                  /\ LastEvent.should_end_call = call_end_detected
                  /\ LastEvent.should_handoff = handoff_detected

\* C16's case: a successful turn in which the end_call tool started after
\* the fragments were yielded; only the final event carries the flag.
C16_Witness ==
    /\ TurnFinished
    /\ thread = "returned"
    /\ call_end_detected
    /\ Len(events) >= 2
    /\ LastEvent.should_end_call
    /\ IsFragmentEvent(events[1]) /\ ~events[1].should_end_call

\* C17: when generation raised, the turn ends with the apology as its final
\* event, with both flags false, and the history of the session is what it
\* was before the turn, that is the history at the join without the user
\* entry the turn appended when it started.
C17_FailureLeavesHistory ==
    [][IsFinishOfFailure =>
          /\ events' = Append(events, Event(ApologyText, TRUE, FALSE, FALSE, FALSE))
          /\ TurnHistory[Len(TurnHistory)] = UserEntry(UserText)
          /\ TurnHistory' = SubSeq(TurnHistory, 1, Len(TurnHistory) - 1)]_vars

\* C19: during a turn call_end_detected and handoff_detected, once true,
\* stay true, and every fragment event and successful final event yielded
\* while a flag is true carries it as true.
C19_FlagsSticky ==
    [][~IsTurnStart =>
          /\ call_end_detected => call_end_detected'
          /\ handoff_detected => handoff_detected'
          /\ ( /\ Len(events') = Len(events) + 1
               /\ ~events'[Len(events')].is_interstitial
               /\ (events'[Len(events')].is_final => thread = "returned") )
             => /\ call_end_detected => events'[Len(events')].should_end_call
                /\ handoff_detected => events'[Len(events')].should_handoff]_vars

\* C19's case: the end_call tool started before the model's second run; a
\* fragment produced after it and the final event both carry the flag.
C19_Witness ==
    /\ TurnFinished
    /\ thread = "returned"
    /\ tool_runs >= 1
    /\ call_end_detected
    /\ \E k \in 1..(Len(events) - 1) :
          IsFragmentEvent(events[k]) /\ events[k].should_end_call
    /\ LastEvent.should_end_call

\* C20: the assistant entry of normal kind appended by a successful turn
\* holds neither CALL_END: nor HANDOFF_HUMAN:.
C20_NoMarkerInHistory ==
    [][IsFinishOfSuccess =>
          \A k \in (Len(TurnHistory) + 1)..Len(TurnHistory') :
              IsNormalAssistant(TurnHistory'[k]) => ~HasMarker(TurnHistory'[k].content)]_vars

\* C21: when a tool start set call_end_detected or handoff_detected and the
\* generated text holds no marker, the turn still succeeds: the joined text
\* is appended as it is as the assistant entry, and the final event carries
\* the flags.
C21_FlagWithoutMarker ==
    [][( /\ IsFinishOfSuccess
         /\ call_end_detected \/ handoff_detected
         /\ ~HasMarker(concat(tokens)) )
       => /\ Len(TurnHistory') > Len(TurnHistory)
          /\ TurnHistory'[Len(TurnHistory) + 1] = AssistantEntry(concat(tokens))
          /\ events' = Append(events, Event(<<>>, TRUE, call_end_detected,
                                            handoff_detected, FALSE))]_vars

\* C21's case: the end_call tool started, the text "a " holds no marker, and
\* the turn finished with the text in the history and the flag on the final
\* event.
C21_Witness ==
    /\ TurnFinished
    /\ thread = "returned"
    /\ call_end_detected
    /\ tokens = << <<"a">>, <<" ">> >>
    /\ TurnHistory[Len(TurnHistory)] = AssistantEntry(<<"a", " ">>)
    /\ LastEvent.should_end_call

\* C31: the turns of a session are serialized: a step that starts a turn
\* (resets the turn state, appends the user entry, starts the generation
\* thread) is taken only when no turn is running, and, when it is not the
\* first, after the finalization of the previous turn has joined the thread
\* and yielded that turn's final event.
C31_TurnsSerialized ==
    [][IsTurnStart =>
          /\ poll_pc = "idle"
          /\ thread # "alive"
          /\ turn >= 1 =>
                 /\ thread \in {"returned", "raised"}
                 /\ events # <<>>
                 /\ LastEvent.is_final /\ ~LastEvent.is_interstitial]_vars

\* C31's case: a second prompt was received after a first turn that
\* succeeded; the second turn is running on the history the first one left.
C31_Witness ==
    /\ turn = 2
    /\ thread = "alive"
    /\ agent_pc = "llm"
    /\ poll_pc = "check"
    /\ Len(TurnHistory) = 3
    /\ TurnHistory[2].role = "assistant"
    /\ TurnHistory[3] = UserEntry(UserText)

\* the second turn of a session whose first turn failed: the first turn left
\* its user entry and nothing else
AfterFailedTurn ==
    /\ turn = 2
    /\ Len(TurnHistory) >= 2
    /\ TurnHistory[1] = UserEntry(UserText)
    /\ TurnHistory[2] = UserEntry(UserText)

\* C33: after a turn whose generation failed the next turn runs as a first
\* turn would: it yields fragments of its own fragment list only, in order,
\* and an interstitial event only when it has started a tool; when its
\* generation succeeds it has yielded all its fragments, ends with the final
\* event that carries this turn's flags (false when the turn started no
\* tool), and appends its assistant entry, with its interstitial entries,
\* behind the two user entries.
C33_UsableAfterFailure ==
    AfterFailedTurn =>
        /\ tool_runs = 0 => InterstitialCount = 0
        /\ Len(YieldedFragments) <= Len(tokens)
        /\ YieldedFragments = SubSeq(tokens, 1, Len(YieldedFragments))
        /\ (TurnFinished /\ thread = "returned") =>
               /\ YieldedFragments = tokens
               /\ LastEvent = FinalEvent
               /\ FinalPositions = {Len(events)}
               /\ tool_runs = 0 =>
                      ~LastEvent.should_end_call /\ ~LastEvent.should_handoff
               /\ TurnHistory =
                      <<UserEntry(UserText), UserEntry(UserText),
                        AssistantEntry(concat(tokens))>>
                      \o [k \in 1..Len(EmittedInterstitials) |->
                             InterstitialEntry(EmittedInterstitials[k])]

\* the generation call of the running turn has returned or raised
GenerationEnded == thread \in {"returned", "raised"} /\ poll_pc # "idle"

\* the turn is over and its last event is the final or the fallback event
TurnEnded ==
    /\ TurnFinished
    /\ events # <<>>
    /\ LastEvent.is_final /\ ~LastEvent.is_interstitial
    /\ YieldedFragments = tokens

\* the step leaves the polling loop
IsLoopExit == poll_pc = "head" /\ poll_pc' = "join"

\* C35: once the generation call has returned or raised, the polling loop
\* yields the remaining fragments and exits and the turn's final event is
\* yielded; the loop is not left while the generation thread is alive or a
\* fragment has not been yielded.
C35_TurnTerminates ==
    /\ [][IsLoopExit =>
              /\ thread # "alive"
              /\ last_token_count = Len(tokens)
              /\ YieldedFragments = tokens]_vars
    /\ GenerationEnded ~> TurnEnded

\* C35's case: the generation has ended with a fragment the loop has not
\* yielded yet.
C35_Witness ==
    /\ GenerationEnded
    /\ poll_pc = "head"
    /\ Len(tokens) = 2
    /\ last_token_count = 1
    /\ Len(YieldedFragments) = 1

-----------------------------------------------------------------------------
(* Properties of the interstitial scheduler.                               *)

FlagSet == call_end_detected \/ handoff_detected

\* the step arms the timer
TimerArmed == timer # "waiting" /\ timer' = "waiting"

\* the step yields an interstitial event
InterstitialEmitted ==
    /\ Len(events') = Len(events) + 1
    /\ events'[Len(events')].is_interstitial

\* C22: once call_end_detected or handoff_detected is true in a turn, no step
\* of the rest of the turn arms the timer and none yields an interstitial
\* event.
C22_NothingAfterFlag ==
    [][(FlagSet /\ ~IsTurnStart) => (~TimerArmed /\ ~InterstitialEmitted)]_vars

\* the step is the handler's on_tool_start for the tool tool_name
IsToolStart(tool_name) == tool_runs' = tool_runs + 1 /\ on_tool_start(tool_name)

\* C23: the start of end_call or escalate_to_human_agent never arms the
\* timer; the start of any other tool arms it when no timer thread is alive.
\* (The delay of the armed timer is the literal 0.4; the model has no clock,
\* the end of the wait is a step of its own.)
C23_ExcludedToolsNeverArm ==
    [][/\ tool_runs' = tool_runs + 1 => \E tool_name \in ToolNames : IsToolStart(tool_name)
       /\ \A tool_name \in ToolNames :
             IsToolStart(tool_name) =>
                 IF tool_name \in {"end_call", "escalate_to_human_agent"}
                 THEN timer' = timer
                 ELSE IF timer \in {"waiting", "firing", "cancelled"}
                      THEN timer' = timer
                      ELSE timer' = "waiting"]_vars

\* C23's case: in the second turn the end_call tool has started, and the
\* timer is waiting after the start of another tool.
C23_Witness ==
    /\ turn = 2
    /\ tool_runs = 2
    /\ agent_pc = "tool"
    /\ call_end_detected
    /\ timer = "waiting"
    /\ tokens = <<>>

\* a fragment with text has arrived in the turn
RealTokenArrived == \E k \in 1..Len(tokens) : strip(tokens[k]) # <<>>

\* the step is the run of the timer's callback
IsTimerFiring == timer = "firing" /\ timer' = "none"

\* C24: the timer's callback sets interstitial_ready only if at that moment
\* no fragment with text has arrived in the turn and neither flag is set;
\* otherwise it leaves interstitial_ready as it is.
C24_ReadyOnlyBeforeTokens ==
    [][IsTimerFiring =>
          \/ ~RealTokenArrived /\ ~FlagSet
          \/ interstitial_ready' = interstitial_ready]_vars

\* generation has completed or failed
GenerationOver == thread \in {"returned", "raised"}

\* an event that suppresses the interstitial has happened in the turn
Suppressed == RealTokenArrived \/ FlagSet \/ GenerationOver

\* C25: the step on which the interstitial becomes suppressed (the first
\* fragment with text, the completion or the failure of generation, a flag
\* being set) leaves no timer waiting, and a callback that runs when
\* generation is over, at the turn's end or after it, leaves
\* interstitial_ready as it is.
C25_TimerCancelledOnSuppression ==
    [][/\ (~Suppressed /\ Suppressed' /\ ~IsTurnStart) => timer' # "waiting"
       /\ (IsTimerFiring /\ GenerationOver) =>
              interstitial_ready' = interstitial_ready]_vars

\* C26: phrase_index always lies in 0..5; the start of a turn keeps it; a
\* step that yields an interstitial yields the phrase at the cursor and
\* advances the cursor by one modulo 6, so the next interstitial is another
\* phrase; every other step keeps the cursor.
C26_CursorRotates ==
    [][/\ phrase_index' \in 0..5
       /\ IsTurnStart => phrase_index' = phrase_index
       /\ IF InterstitialEmitted
          THEN /\ events'[Len(events')].chunk = InterstitialPhrases[phrase_index + 1]
               /\ phrase_index' = (phrase_index + 1) % 6
               /\ InterstitialPhrases[phrase_index' + 1]
                      # InterstitialPhrases[phrase_index + 1]
          ELSE phrase_index' = phrase_index]_vars

\* C26's case: the cursor went from 5 around to 0 in the last turn and the
\* turn that is running has yielded the phrase at 0, the cursor is at 1.
C26_Witness ==
    /\ turn = MaxRotationTurns
    /\ phrase_index = 1
    /\ InterstitialCount = 1
    /\ events[1].chunk = InterstitialPhrases[1]
    /\ \E k \in 1..Len(TurnHistory) :
          TurnHistory[k] = InterstitialEntry(InterstitialPhrases[6])

\* C27: the step that starts a turn leaves the turn state fresh: no
\* fragments, tool_executing, call_end_detected, handoff_detected,
\* interstitial_sent and interstitial_ready false, no interstitial records,
\* and no event yielded yet.
C27_TurnStateFresh ==
    [][IsTurnStart =>
          /\ tokens' = <<>>
          /\ ~tool_executing'
          /\ ~call_end_detected'
          /\ ~handoff_detected'
          /\ ~interstitial_sent'
          /\ ~interstitial_ready'
          /\ sent_interstitials' = <<>>
          /\ events' = <<>>
          /\ last_token_count' = 0
          /\ ~interstitial_sent_this_response']_vars

\* C27's case: the second turn has just started after a first turn that
\* streamed a fragment, yielded an interstitial and succeeded.
C27_Witness ==
    /\ turn = 2
    /\ poll_pc = "head"
    /\ agent_pc = "start"
    /\ thread = "alive"
    /\ tokens = <<>>
    /\ events = <<>>
    /\ Len(TurnHistory) = 4
    /\ TurnHistory[2].content # <<>>
    /\ TurnHistory[3].type = "interstitial"

\* a finished turn in which no tool was started and the generation streamed
\* fragments and completed
ToolFreeTurnDone ==
    /\ TurnFinished
    /\ thread = "returned"
    /\ tool_runs = 0
    /\ tokens # <<>>

\* C28: a turn in which no tool is started and the generation streams its
\* fragments and completes yields no interstitial event, one fragment event
\* per fragment in production order, and then a final event with
\* should_end_call and should_handoff false, whatever happened in earlier
\* turns of the session.
C28_ToolFreeTurn ==
    ToolFreeTurnDone =>
        /\ InterstitialCount = 0
        /\ Len(events) = Len(tokens) + 1
        /\ YieldedFragments = tokens
        /\ LastEvent = Event(<<>>, TRUE, FALSE, FALSE, FALSE)

-----------------------------------------------------------------------------
(* Two sessions, checked under SpecTwoSessions.                            *)

\* what session b owns: its history, and its handler (fragment list, turn
\* state flags, rotation cursor, timer) with its thread and generator
SessionView(b) ==
    [history |-> HistoryOf(conversation_histories, b),
     state   |-> IF b = stream_session_id THEN Snapshot ELSE parked[b]]

\* C32: sessions are independent: every step of a turn or of an interruption
\* is a step of one session, and it leaves the history, the turn state
\* flags, the fragment list and the rotation cursor of every other session
\* unchanged, however the steps of the sessions interleave.
C32_SessionsIndependent ==
    [][\E a \in TwoSessions :
          \A b \in TwoSessions \ {a} : SessionView(b)' = SessionView(b)]_vars

\* C32's case: a turn of s1 ran from its start to its end, with a tool and
\* an interstitial, while a turn of s2 was in the middle of streaming.
C32_Witness ==
    /\ stream_session_id = "s1"
    /\ poll_pc = "idle"
    /\ thread = "returned"
    /\ phrase_index = 1
    /\ Len(HistoryOf(conversation_histories, "s1")) = 3
    /\ parked["s2"].thread = "alive"
    /\ parked["s2"].tokens # <<>>
    /\ parked["s2"].poll_pc = "tokens"
    /\ HistoryOf(conversation_histories, "s2") = <<UserEntry(UserText)>>

-----------------------------------------------------------------------------
(* Interrupts and turns, checked under SpecInterruptTurn.                  *)

\* the position of the last user entry of history h, 0 when it has none
LastUserPos(h) ==
    LET user_positions == {0} \cup {k \in 1..Len(h) : h[k].role = "user"}
    IN  CHOOSE m \in user_positions : \A n \in user_positions : n <= m

\* the step handles an interrupt message
IsInterruptHandled == interrupts' = interrupts + 1

\* C34: an interrupt message that arrives while a turn is streaming is
\* handled only after the turn is finished, and it is not applied to an
\* entry of an earlier turn: the history up to and including the user entry
\* of that turn is left as it is, and what is redacted is the assistant entry
\* the turn appended behind it.
C34_InterruptRedactsOwnTurn ==
    [][IsInterruptHandled =>
          LET h == TurnHistory
              p == LastUserPos(h)
          IN  /\ poll_pc = "idle"
              /\ thread \in {"returned", "raised"}
              /\ Len(TurnHistory') >= p
              /\ SubSeq(TurnHistory', 1, p) = SubSeq(h, 1, p)]_vars

-----------------------------------------------------------------------------
(* The slow tool, checked under SpecSlowTool.                              *)

\* the first tool of the turn has been started and is over
SlowToolOver == tool_runs >= 1 /\ ~(InFirstTool /\ thread = "alive")

\* C29: when a tool that arms the timer starts before any output fragment
\* and runs longer than the timer's delay, with no call-end or handoff flag
\* set, the turn has exactly one interstitial event: it is yielded while the
\* tool is still running, only after the timer's wait since the tool's start
\* is over, and it is the turn's first event, ahead of every fragment.
C29_SlowToolInterstitial ==
    [][/\ InterstitialEmitted =>
              /\ InFirstTool
              /\ timer = "none"
              /\ tokens = <<>>
              /\ events = <<>>
       /\ SlowToolOver' =>
              /\ InterstitialCount' = 1
              /\ IsInterstitialEvent(events'[1])]_vars

\* C29's case: the turn is finished, its one tool ran past the delay, the
\* interstitial came first, then the fragment of the answer, then the final
\* event.
C29_Witness ==
    /\ TurnFinished
    /\ thread = "returned"
    /\ tool_runs = 1
    /\ ~call_end_detected /\ ~handoff_detected
    /\ Len(events) = 3
    /\ IsInterstitialEvent(events[1])
    /\ IsFragmentEvent(events[2])
    /\ LastEvent = FinalEvent


\* a step in which cleanup_session_data ran for session s
IsCleanup(s) == s \in connections /\ s \notin connections'

\* after the step, the dictionaries of conversation.py hold nothing of s
ConnectionStateGone(s) ==
    /\ s \notin DOMAIN session_state'
    /\ s \notin connections'
    /\ s \notin session_conversation_loggers'
    /\ \A c \in DOMAIN call_sid_to_session_id' : call_sid_to_session_id'[c] # s

\* after the step, the session has no history and no agent, handler or cursor
ConversationStateGone(s) ==
    /\ s \notin DOMAIN conversation_histories'
    /\ s \notin AGENT_SESSIONS'

\* C30: after cleanup_session_data(session_id) has run, no per-session state
\* remains for that session id: not its session record, connection, logger
\* or call mapping, and not its history in conversation_histories or its
\* agent, handler and cursor in AGENT_SESSIONS.
C30_CleanupLeavesNothing ==
    [][\A s \in Sessions :
          IsCleanup(s) => ConnectionStateGone(s) /\ ConversationStateGone(s)]_vars

-----------------------------------------------------------------------------
(* The terminal signal of a turn, checked under SpecChunker.               *)

\* llm_call_response_streaming has returned after a successful generation:
\* the last event it consumed is the final event with the empty chunk
SuccessfulTurnDone ==
    /\ chunk_pc = "done"
    /\ full_response_parts # <<>>
    /\ full_response_parts[Len(full_response_parts)] = <<>>

\* C18: after a successful turn, handoff intent reported by the marker
\* HANDOFF_HUMAN: in the generated text or by the start of the
\* escalate_to_human_agent tool ends the turn with the handoff signal, and,
\* when there is no handoff intent, call-end intent reported by the marker
\* CALL_END: in the text or by the start of the end_call tool ends it with
\* the end signal.
C18_BothChannelsDetected ==
    SuccessfulTurnDone =>
        LET text == concat(full_response_parts)
            handoff_intent == Contains(text, HandoffMarker) \/ handoff_detected
            end_intent == Contains(text, CallEndMarker) \/ call_end_detected
        IN  /\ handoff_intent => sent[Len(sent)] = EndMsg(TRUE)
            /\ (end_intent /\ ~handoff_intent) => sent[Len(sent)] = EndMsg(FALSE)

-----------------------------------------------------------------------------
(* The flush condition of the chunker, checked under SpecChunker.          *)

\* a step in which llm_call_response_streaming consumed a non-interstitial
\* event
IsRealEventStep ==
    chunk_pc = "loop" /\ Len(full_response_parts') = Len(full_response_parts) + 1

\* the chunk of the event consumed in the step
StepChunk == full_response_parts'[Len(full_response_parts')]

\* the step consumed the generator's last event
StepIsFinal == chunk_pc' = "post"

\* the step sent a message
StepSent == Len(sent') = Len(sent) + 1

\* C36: the pending buffer (the old buffer followed by the fragment of the
\* event) is flushed exactly when it is non-blank and it has at least 3
\* whitespace-delimited words, or the stripped fragment ends with one of
\* . ! ? , ; :, or the event is final; a flush sends the buffer as a text
\* chunk and empties it, anything else keeps it.  So after each
\* non-interstitial event the buffer holds fewer than 3 words, and after the
\* final event it holds no non-whitespace text.
C36_FlushCondition ==
    [][IsRealEventStep =>
          LET buf == token_buffer \o StepChunk
              due == \/ WordsInBuffer(buf) >= 3
                     \/ /\ strip(StepChunk) # <<>>
                        /\ strip(StepChunk)[Len(strip(StepChunk))]
                               \in {".", "!", "?", ",", ";", ":"}
                     \/ StepIsFinal
          IN  /\ StepSent <=> (strip(buf) # <<>> /\ due)
              /\ StepSent => /\ IsChunkMsg(sent'[Len(sent')])
                             /\ token_buffer' = <<>>
              /\ ~StepSent => token_buffer' = buf /\ sent' = sent
              /\ WordsInBuffer(token_buffer') < 3
              /\ StepIsFinal => strip(token_buffer') = <<>>]_vars

\* C36's case: the third fragment brought the buffer to three words, and the
\* three fragments were sent as one chunk; before that, two words were
\* pending.
C36_Witness ==
    /\ chunk_pc = "loop"
    /\ full_response_parts = <<<<" ", "b">>, <<" ", "b">>, <<" ", "b">>>>
    /\ SentChunks = <<concat(full_response_parts)>>
    /\ token_buffer = <<>>

-----------------------------------------------------------------------------
(* The order of the messages of a turn, checked under SpecChunker.         *)

\* the positions in sent of the terminal signals
EndPositions == {i \in 1..Len(sent) : sent[i].type = "end"}

\* handoff was requested in the turn: by an event's flag or by the marker in
\* the text
HandoffRequested ==
    should_handoff \/ Contains(concat(full_response_parts), HandoffMarker)

\* the end of the call was requested in the turn: by an event's flag or by
\* the marker in the text
EndCallRequested ==
    should_end_call \/ Contains(concat(full_response_parts), CallEndMarker)

\* C38: a turn sends at most one terminal signal, none before the turn's
\* work is over, and the signal is the last message sent, after the
\* completion marker and every text message; when handoff and end of call
\* are both requested the signal is the handoff signal, and when neither is
\* requested there is none.
C38_OneTerminalSignal ==
    /\ Cardinality(EndPositions) <= 1
    /\ chunk_pc # "done" => EndPositions = {}
    /\ \A i \in EndPositions :
          /\ i = Len(sent)
          /\ CompletionCount = 1
          /\ \A j \in 1..Len(sent) : sent[j].type = "text" => j < i
    /\ (chunk_pc = "done" /\ HandoffRequested /\ EndCallRequested)
       => /\ sent[Len(sent)] = EndMsg(TRUE)
          /\ \A i \in 1..Len(sent) : sent[i] # EndMsg(FALSE)
    /\ (~HandoffRequested /\ ~EndCallRequested) => EndPositions = {}

\* C38's case: a finished turn in which both flags were reported, that sent
\* a text chunk, the completion marker and then the handoff signal.
C38_Witness ==
    /\ chunk_pc = "done"
    /\ should_handoff /\ should_end_call
    /\ Len(SentChunks) >= 1
    /\ Len(sent) >= 3
    /\ IsCompletionMsg(sent[Len(sent) - 1])
    /\ sent[Len(sent)] = EndMsg(TRUE)

-----------------------------------------------------------------------------
(* Interstitials and the chunker, checked under SpecChunker.               *)

\* a step in which llm_call_response_streaming consumed an interstitial
\* event
IsInterstitialStep ==
    ~interstitial_sent_this_response /\ interstitial_sent_this_response'

\* the text of an interstitial occurs in text
HoldsInterstitial(text) ==
    \E k \in 1..Len(InterstitialPhrases) : Contains(text, InterstitialPhrases[k])

\* C39: an interstitial event is sent at once as a text message of its own,
\* and the step leaves the pending buffer, the accumulated response, the
\* end-call and handoff flags and the position in the turn as they were; no
\* text chunk and no logged agent response holds the text of an
\* interstitial.
C39_InterstitialBypassesChunker ==
    /\ [][IsInterstitialStep =>
             /\ sent' = Append(sent,
                               TextMsg(InterstitialPhrases[phrase_index + 1], TRUE))
             /\ UNCHANGED <<token_buffer, full_response_parts, should_end_call,
                            should_handoff, logged_response, chunk_pc>>]_vars
    /\ [](/\ \A i \in 1..Len(SentChunks) : ~HoldsInterstitial(SentChunks[i])
          /\ ~HoldsInterstitial(token_buffer)
          /\ ~HoldsInterstitial(logged_response))

\* C39's case: an interstitial has just been sent while text was pending in
\* the buffer and a flag had been reported, after an earlier chunk.
C39_Witness ==
    /\ chunk_pc = "loop"
    /\ interstitial_sent_this_response
    /\ Len(sent) >= 2
    /\ sent[Len(sent)].type = "text" /\ sent[Len(sent)].last
    /\ HoldsInterstitial(sent[Len(sent)].token)
    /\ IsChunkMsg(sent[1])
    /\ strip(token_buffer) # <<>>
    /\ should_end_call

-----------------------------------------------------------------------------
(* The shape of the redacted text, checked under SpecRedact.               *)

\* C37: for every text T and utterance U the text that find_spoken_portion
\* returns, and that the redaction keeps, is a character prefix of T
\* (possibly empty), whether the substring search or the word alignment
\* produced it, and also when T holds leading or repeated whitespace.
C37_ResultIsPrefix ==
    Redacted => IsPrefixOf(redaction_result.spoken_text,
                           redaction_result.original_text)

=============================================================================
